---- MODULE Spec2Model ----
(***************************************************************************)
(* Verification model of the Whatnot -> ShipStation synchronisation        *)
(* engine: the fulfillment client's retry discipline, the dashboard        *)
(* server's single-flight run status, the tracking-update pipeline with    *)
(* its persisted watermark and resume state, and the order-sync pipeline   *)
(* with its persisted pagination cursor.                                   *)
(*                                                                         *)
(* The module holds several specifications over one set of variables; the  *)
(* variables of the parts a specification does not exercise stay at their  *)
(* idle values.                                                            *)
(***************************************************************************)
EXTENDS Integers, Sequences, FiniteSets, TLC

(***************************************************************************)
(* Bounds of the model.                                                    *)
(***************************************************************************)
MaxScript == 3
MaxGroups == 2
MaxActive == 2
MaxRuns == 2
MaxEvents == 1
MaxTicks == 1
TickMs == 5001
MaxShipments == 3
MaxClock == 1
DayLen == 1
MaxFaults == 1
MaxOrders == 5
MaxPage == 2
MaxBatch == 2
MaxCreated == 2
HourLen == 2

(***************************************************************************)
(* Small helpers.                                                          *)
(***************************************************************************)
Range(s) == {s[k] : k \in DOMAIN s}

SeqsUpTo(S, n) == UNION {[1..k -> S] : k \in 0..n}

Min2(a, b) == IF a <= b THEN a ELSE b

(***************************************************************************)
(* FULFILLMENT CLIENT  (services/shipstation.js)                           *)
(***************************************************************************)
VARIABLES
  api,          \* the simulated fulfillment API: answers to successive requests
  apiPos,       \* number of requests the API has answered
  ccPc,         \* position of createOrders: "idle", "request", "done"
  groupedCount, \* number of consolidated groups of the call
  gi,           \* index of the group being created
  retries,      \* executeRequest: local retry counter
  attempts,     \* requests issued by the current executeRequest call
  waits,        \* durations (seconds) slept by executeRequest in this call
  successful,   \* createOrders: results.successful
  failed        \* createOrders: results.failed

clientVars == <<api, apiPos, ccPc, groupedCount, gi, retries, attempts, waits,
                successful, failed>>

VARIABLES
  env,          \* process environment: SYNC_ALL_ACCOUNTS, SCHEDULED_ACCOUNT
  accountsFile, \* accounts.json: sequence of [name, enabled]
  now,          \* wall clock, milliseconds
  syncStatus,   \* the status singleton
  runs,         \* invocations of the run functions that have not returned yet
  lastReq,      \* the outcome of a start request made in the last step
  accepted      \* number of runs accepted so far

serverVars == <<env, accountsFile, now, syncStatus, runs, lastReq,
                accepted>>

VARIABLES
  clock,             \* wall clock of the pipelines, in ticks
  shipments,         \* the platform's shipments: shipments[id] = createDate
  syncTimeFile,      \* sync_times/shipstation_<store>.json: lastSyncTime
  trackingStateFile, \* tracking_state/shipstation_<store>.json
  utPc,              \* position of updateTracking / processAccount
  withCallback,      \* updateTracking was handed a progress callback
  lastSyncTime,      \* processAccount: lastSyncTime
  processedShipmentIds,      \* processAccount: ids loaded from the state file
  orders,            \* processAccount: what the platform returned
  filteredOrders,    \* processAccount: orders not yet processed
  ti,                \* processAccount: loop index i, counted from 1
  oj,                \* updateOrdersTracking: index of the order being pushed
  updateResult,      \* updateOrdersTracking: results
  results,           \* processAccount: results
  newlyProcessedShipmentIds, \* processAccount: ids handled so far
  currentTime,       \* processAccount: the new watermark
  paResult,          \* what processAccount returned
  utResults,         \* updateTracking: results
  lastEvent,         \* the last event handed to the progress callback
  pushes,            \* history: addTrackingCode calls of this run
  resumeSet,         \* history: processed ids on file when the run began
  quietStart,        \* history: no shipment appeared between the fetch of a
                     \* complete run without errors and this run's fetch
  resumed,           \* history: the run began after an interrupted run
  sinceRun,          \* history: how the last run ended
  shippedSince,      \* history: a shipment appeared after the last fetch
  faults             \* number of failed requests, failed writes and crashes

trackingVars == <<clock, shipments, syncTimeFile, trackingStateFile, utPc,
                  withCallback, lastSyncTime, processedShipmentIds, orders,
                  filteredOrders, ti, oj, updateResult, results,
                  newlyProcessedShipmentIds, currentTime, paResult, utResults,
                  lastEvent, pushes, resumeSet, quietStart, resumed, sinceRun,
                  shippedSince, faults>>

VARIABLES
  feedLen,           \* the marketplace feed holds the orders 1..feedLen
  cursorFile,        \* cursors/<account>.json: cursor
  soPc,              \* position of syncOrders / processAccount / getOrders
  afterCursor,       \* getOrders: afterCursor
  hasNextPage,       \* getOrders: hasNextPage
  edges,             \* getOrders: edges of the page received last
  goOrders,          \* getOrders: orders
  valid,             \* processAccount: valid
  ci,                \* createOrders: index of the order being created
  created,           \* createOrders: results.successful.length
  createFailed,      \* createOrders: results.failed.length
  soResult,          \* what processAccount returned
  soOutcome,         \* history: how the last run ended
  submitted,         \* history: orders handed to the platform for creation
  returnedPersisted, \* history: orders of the pages whose cursor was saved
  startCursor,       \* history: the cursor on file when the run began
  soFaults           \* number of failed requests, failed writes and crashes

ordersVars == <<feedLen, cursorFile, soPc, afterCursor, hasNextPage, edges,
                goOrders, valid, ci, created, createFailed, soResult,
                soOutcome, submitted, returnedPersisted, startCursor, soFaults>>

VARIABLES
  whatnotOrders,     \* createOrders: the batch it is called with
  groupedOrders,     \* createOrders: groupedOrders
  batchPc,           \* position of createOrders in its loop over the groups
  batchIdx,          \* createOrders: loop index i, counted from 1
  posted,            \* the bodies of the createorder requests of this call
  batchFailed,       \* createOrders: results.failed.length
  destination,       \* the shipping orders the platform holds
  submission,        \* history: "first" for the first call, "retry" for the
                     \* same batch once more, "later" for a later run
  firstGrouped,      \* history: groupedOrders of the first call
  firstPosted,       \* history: posted of the first call
  firstFailed,       \* history: results.failed.length of the first call
  firstDestination,  \* history: destination after the first call
  batchFaults,       \* number of rejected requests
  batchResults,      \* createOrders: results (successful, failed)
  callbacks          \* the arguments of the calls of progressCallback

batchVars == <<whatnotOrders, groupedOrders, batchPc, batchIdx, posted,
               batchFailed, destination, submission, firstGrouped,
               firstPosted, firstFailed, firstDestination, batchFaults,
               batchResults, callbacks>>

VARIABLES
  voOrders,          \* validateOrders: the orders it is called with
  voPc,              \* position of validateOrders
  voIdx,             \* validateOrders: index of the order being validated
  validationResults  \* validateOrders: validationResults

validateVars == <<voOrders, voPc, voIdx, validationResults>>

VARIABLES
  runPipeline,       \* the pipeline that runs: "sync" or "tracking"
  runAccountsFile,   \* accounts.json as loadAccounts reads it
  accountsToProcess, \* argument of syncOrders / updateTracking
  progressCallback,  \* whether a progress callback was handed over
  runPc,             \* position of the run: "idle", "loop", "done", "threw"
  runAccounts,       \* accounts: the list the loop goes over
  runIdx,            \* number of accounts the loop has finished
  runResults,        \* results of syncOrders / updateTracking
  emitted,           \* number of events handed to progressCallback
  lastEmitted,       \* the last event handed to progressCallback
  initialSyncDate,   \* whether WHATNOT_INITIAL_SYNC_DATE is set
  files,             \* the files of cursors/, sync_times/ and tracking_state/
  steps,             \* history: the external calls and file accesses so far
  fetchedByRun,      \* history: orders fetched by the accounts so far
  handled            \* history: per finished account, its name and outcome

runVars == <<runPipeline, runAccountsFile, accountsToProcess, progressCallback,
             runPc, runAccounts, runIdx, runResults, emitted, lastEmitted,
             fetchedByRun, handled, initialSyncDate, files, steps>>

VARIABLES
  shipmentPages,     \* the platform: the shipments of the store, page by page
  pages,             \* the platform: the page count its responses declare
  listPc,            \* position of getShippedOrdersWithTracking
  page,              \* getShippedOrdersWithTracking: page
  hasMorePages,      \* getShippedOrdersWithTracking: hasMorePages
  listResults,       \* getShippedOrdersWithTracking: results
  requestedPages     \* history: the page numbers requested, in order

listVars == <<shipmentPages, pages, listPc, page, hasMorePages, listResults,
              requestedPages>>

VARIABLES
  carrierCode,       \* shipment.carrierCode, a sequence of characters
  courier            \* processAccount (tracking): courier

carrierVars == <<carrierCode, courier>>

VARIABLES
  failedPushes,      \* history: shipments of this run with a failed push
  failedBefore       \* history: those of the run before, when it went over
                     \* its whole batch

retryVars == <<failedPushes, failedBefore>>

vars == <<clientVars, serverVars, trackingVars, ordersVars, batchVars, validateVars, runVars, listVars, carrierVars, retryVars>>

\* The variables an action of one part leaves alone.
notClient == <<serverVars, trackingVars, ordersVars, batchVars,
  validateVars,
  runVars,
  listVars,
  carrierVars,
  retryVars>>

notServer == <<clientVars, trackingVars, ordersVars, batchVars,
  validateVars,
  runVars,
  listVars,
  carrierVars,
  retryVars>>

notTracking == <<clientVars, serverVars, ordersVars, batchVars,
  validateVars,
  runVars,
  listVars,
  carrierVars,
  retryVars>>

notTrackingRetry == <<clientVars, serverVars, ordersVars, batchVars, validateVars, runVars, listVars, carrierVars>>

notOrders == <<clientVars, serverVars, trackingVars, batchVars,
  validateVars,
  runVars,
  listVars,
  carrierVars,
  retryVars>>

notBatch == <<clientVars, serverVars, trackingVars, ordersVars,
  validateVars,
  runVars,
  listVars,
  carrierVars,
  retryVars>>

notValidate == <<clientVars, serverVars, trackingVars, ordersVars, batchVars,
  runVars,
  listVars,
  carrierVars,
  retryVars>>

notRun == <<clientVars, serverVars, trackingVars, ordersVars, batchVars, validateVars,
  listVars,
  carrierVars,
  retryVars>>

notList == <<clientVars, serverVars, trackingVars, ordersVars, batchVars, validateVars, runVars,
  carrierVars,
  retryVars>>

notCarrier == <<clientVars, serverVars, trackingVars, ordersVars, batchVars, validateVars, runVars, listVars,
  retryVars>>

notRetry == <<clientVars, serverVars, trackingVars, ordersVars, batchVars, validateVars, runVars, listVars, carrierVars>>

\* No retry-after header on the response.
NoHeader == 0

\* parseInt(headers['retry-after'] || '60')
DefaultRetryAfter == 60

\* config.maxRetries || 3, with the services constructed without a config
maxRetries == 3

Answers ==
  { [status |-> 200, retryAfter |-> NoHeader],
    [status |-> 401, retryAfter |-> NoHeader],
    [status |-> 429, retryAfter |-> 2],
    [status |-> 429, retryAfter |-> NoHeader],
    [status |-> 500, retryAfter |-> NoHeader] }

\* The answer of the API to its k-th request.
ApiAnswer(k) == IF k <= Len(api.script) THEN api.script[k] ELSE api.rest

ParseRetryAfter(header) == IF header = NoHeader THEN DefaultRetryAfter ELSE header

\* The error axios rejects with for a non-2xx answer: it carries the response.
AxiosError(answer) ==
  [hasResponse |-> TRUE, status |-> answer.status,
   retryAfter |-> answer.retryAfter, message |-> "Request failed"]

\* Mutant: an interceptor that does not single out HTTP 401.
ResponseInterceptorNo401(error) ==
  IF error.hasResponse /\ error.status = 429
    THEN [hasResponse |-> FALSE, status |-> 0, retryAfter |-> NoHeader,
          message |-> "Rate limit exceeded"]
  ELSE error

\* The rejection handler of the response interceptor: the error that reaches
\* the caller of this.client.post / this.client.get.
ResponseInterceptor(error) ==
  IF error.hasResponse /\ error.status = 401
    THEN [hasResponse |-> FALSE, status |-> 0, retryAfter |-> NoHeader,
          message |-> "Invalid ShipStation API credentials"]
  ELSE IF error.hasResponse /\ error.status = 429
    THEN [hasResponse |-> FALSE, status |-> 0, retryAfter |-> NoHeader,
          message |-> "Rate limit exceeded"]
  ELSE error

\* The condition of the catch block of executeRequest.
ShouldRetry(error, n) ==
  error.hasResponse /\ error.status = 429 /\ n < maxRetries

\* createOrders moves on to the next group, or returns after the last one.
NextGroup ==
  /\ retries' = 0
  /\ attempts' = 0
  /\ IF gi < groupedCount
       THEN gi' = gi + 1 /\ ccPc' = "request"
       ELSE gi' = gi /\ ccPc' = "done"

\* No call of createOrders is in progress.
ClientIdle ==
  /\ apiPos = 0
  /\ ccPc = "idle"
  /\ groupedCount = 0
  /\ gi = 0
  /\ retries = 0
  /\ attempts = 0
  /\ waits = <<>>
  /\ successful = <<>>
  /\ failed = <<>>

\* createOrders is called with a batch that consolidates into n groups.
createOrders(n) ==
  /\ ccPc = "idle"
  /\ ccPc' = "request"
  /\ groupedCount' = n
  /\ gi' = 1
  /\ retries' = 0
  /\ attempts' = 0
  /\ waits' = <<>>
  /\ successful' = <<>>
  /\ failed' = <<>>
  /\ UNCHANGED <<api, apiPos>>
  /\ UNCHANGED notClient

\* One pass of the loop of executeRequest for the current group: the request
\* is issued and answered; on an error the catch block either sleeps and
\* loops or rethrows to createOrders, which records the group as failed.
executeRequest ==
  /\ ccPc = "request"
  /\ apiPos' = apiPos + 1
  /\ UNCHANGED <<api, groupedCount>>
  /\ UNCHANGED notClient
  /\ LET answer == ApiAnswer(apiPos + 1)
         error  == ResponseInterceptor(AxiosError(answer))
     IN IF answer.status = 200
          THEN /\ successful' = Append(successful,
                                  [group |-> gi, attempts |-> attempts + 1])
               /\ UNCHANGED <<failed, waits>>
               /\ NextGroup
        ELSE IF ShouldRetry(error, retries)
          THEN /\ retries' = retries + 1
               /\ attempts' = attempts + 1
               /\ waits' = Append(waits, ParseRetryAfter(error.retryAfter))
               /\ UNCHANGED <<successful, failed, gi, ccPc>>
        ELSE   /\ failed' = Append(failed,
                              [group |-> gi, attempts |-> attempts + 1,
                               error |-> error.message])
               /\ UNCHANGED <<successful, waits>>
               /\ NextGroup


(***************************************************************************)
(* DASHBOARD SERVER: run status and single-flight guard  (server.js)       *)
(***************************************************************************)
MAX_LOGS == 100

\* addLogMessage: Date.now() - 5000
DEDUPE_MS == 5000

\* "Scale down large numbers": progress.total > 10000
SCALE_THRESHOLD == 10000

Null == "null"

AccountNames == {"a1", "a2"}

\* Values of accountId in a request body: a configured account, an unknown
\* one, or none.
RequestAccountIds == {"a1", "ghost", Null}

JobTypes == {"sync", "tracking", "bogus"}

ZeroProgress == [total |-> 0, processed |-> 0, successful |-> 0, failed |-> 0]

ZeroAccountProgress == [processed |-> 0, successful |-> 0, failed |-> 0]

IdleStatus ==
  [isRunning |-> FALSE, type |-> Null, startTime |-> -1,
   progress |-> ZeroProgress, accounts |-> <<>>, logs |-> <<>>,
   scheduledRun |-> FALSE, currentAccountProgress |-> ZeroAccountProgress,
   consolidation |-> -1, trackingDetails |-> <<>>]

Prefix(s, n) == [k \in 1..Min2(n, Len(s)) |-> s[k]]

\* addLogMessage(message, type) on a log buffer, at time t.
addLogMessage(logs, message, type, t) ==
  LET isDuplicate == \E k \in DOMAIN logs :
                        /\ logs[k].message = message
                        /\ logs[k].type = type
                        /\ logs[k].timestamp > t - DEDUPE_MS
      logEntry == [timestamp |-> t, message |-> message, type |-> type]
  IN IF isDuplicate THEN logs
     ELSE Prefix(<<logEntry>> \o logs, MAX_LOGS)

\* resetSyncStatus(type, isScheduled); consolidation and trackingDetails are
\* not touched by it.
resetSyncStatus(st, type, isScheduled, t) ==
  [st EXCEPT !.isRunning = TRUE, !.type = type, !.startTime = t,
             !.scheduledRun = isScheduled, !.progress = ZeroProgress,
             !.accounts = <<>>, !.logs = <<>>,
             !.currentAccountProgress = ZeroAccountProgress]

\* getEnabledAccounts(accountId): the account list, or the error thrown.
IsEnabled(acc) == acc.enabled

getEnabledAccounts(accountId) ==
  IF accountId # Null
    THEN LET found == SelectSeq(accountsFile, LAMBDA a : a.name = accountId)
         IN IF found = <<>> THEN [ok |-> FALSE, error |-> "not found", accounts |-> <<>>]
            ELSE IF ~found[1].enabled
              THEN [ok |-> FALSE, error |-> "is disabled", accounts |-> <<>>]
            ELSE [ok |-> TRUE, error |-> "", accounts |-> <<found[1].name>>]
    ELSE LET enabledAccounts == SelectSeq(accountsFile, IsEnabled)
         IN IF enabledAccounts = <<>>
              THEN [ok |-> FALSE, error |-> "No enabled accounts found", accounts |-> <<>>]
              ELSE [ok |-> TRUE, error |-> "",
                    accounts |-> [k \in DOMAIN enabledAccounts |-> enabledAccounts[k].name]]

(***************************************************************************)
(* Progress events and results that the pipelines hand to the server.  An  *)
(* event carries what the handlers read: phase, log line, the counters of  *)
(* progress.total and the entries of progress.accounts.                    *)
(***************************************************************************)
AccountEntry(name, processed, total) ==
  [name |-> name, processed |-> processed, total |-> total, success |-> "unset"]

Event(phase, logOnly, log, logType, hasTotal, total, processed, ok, already, invalid, nErrors, accounts, cons) ==
  [phase |-> phase, logOnly |-> logOnly, log |-> log, logType |-> logType,
   hasTotal |-> hasTotal, total |-> total, processed |-> processed, ok |-> ok,
   already |-> already, invalid |-> invalid, nErrors |-> nErrors,
   accounts |-> accounts, cons |-> cons]

\* Events of the order-sync pipeline for an account with two fetched orders:
\* the log-only fetch report, a creation report with consolidation details,
\* and the completion report of processAccount.
SyncEvents(name) ==
  { Event("fetch", TRUE, "Fetched orders", "info", TRUE, 2, 0, 0, 0, 0, 0,
          <<AccountEntry(name, 0, 2)>>, -1),
    Event("creation", FALSE, "Created ShipStation orders", "info", TRUE, 2, 1, 1,
          0, 1, 0, <<AccountEntry(name, 1, 2)>>, 1),
    Event("complete", FALSE, "Completed creation", "info", TRUE, 2, 2, 1, 0, 1, 1,
          <<AccountEntry(name, 2, 2)>>, -1) }

\* Events of the tracking pipeline, as re-emitted by updateTracking: the
\* totals are its cumulative results.total (no total or alreadyTracked field),
\* the accounts are its results.accounts.  An error log line, a per-shipment
\* report, a report of a batch above the scaling threshold, and completion.
TrackingEvents(name) ==
  { Event("update", TRUE, "Failed to update tracking", "error", FALSE, 0, 0, 0, 0,
          0, 0, <<>>, -1),
    Event("update", FALSE, "Processed", "info", TRUE, 0, 1, 1, 0, 0, 0,
          <<AccountEntry(name, 1, 2)>>, -1),
    Event("update", FALSE, "Processed", "info", TRUE, 0, 3, 1, 0, 0, 1,
          <<AccountEntry(name, 5000, 20000)>>, -1),
    Event("complete", FALSE, "Completed tracking updates", "info", TRUE, 0, 5, 2, 0,
          0, 1, <<AccountEntry(name, 2, 2)>>, -1) }

\* Results the pipelines resolve with: what the run functions read of them.
Result(total, processed, ok, already, invalid, nErrors, accounts) ==
  [total |-> total, processed |-> processed, ok |-> ok, already |-> already,
   invalid |-> invalid, nErrors |-> nErrors, accounts |-> accounts]

SyncResults(name) ==
  { Result(0, 2, 1, 0, 1, 0, <<AccountEntry(name, 2, 0)>>),
    Result(0, 0, 0, 0, 0, 1, <<AccountEntry(name, 0, 0)>>) }

TrackingResults(name) ==
  { Result(0, 5, 2, 0, 0, 1, <<AccountEntry(name, 2, 2)>>),
    Result(0, 0, 0, 0, 0, 1, <<>>) }

\* Math.round(x / y * 100) for non-negative integers, y > 0.
RoundPercent(x, y) == (200 * x + y) \div (2 * y)

LogMessage(text, account) == <<text, account>>

\* The log line of an event, if any, is added first; a log-only event stops
\* there (common head of the four progress handlers).
LogEvent(st, ev, prefix, type, t) ==
  IF ev.log # Null
    THEN [st EXCEPT !.logs = addLogMessage(st.logs, LogMessage(ev.log, prefix), type, t)]
    ELSE st

IsLogOnly(ev) == ev.log # Null /\ ev.logOnly

SyncFailed(ev) == ev.nErrors + ev.invalid

handleSyncProgress(st, ev, t) ==
  LET st1 == LogEvent(st, ev, "", "info", t)
  IN IF IsLogOnly(ev) \/ ~ev.hasTotal THEN st1
     ELSE
       LET st2 == [st1 EXCEPT
                     !.progress = [total |-> ev.total,
                                   processed |-> IF ev.phase = "complete"
                                                   THEN ev.total ELSE ev.processed,
                                   successful |-> ev.ok,
                                   failed |-> SyncFailed(ev)],
                     !.accounts = ev.accounts]
       IN IF ev.phase = "creation" /\ ev.cons # -1
            THEN [st2 EXCEPT
                    !.logs = addLogMessage(st2.logs,
                               LogMessage("Created consolidated orders", ""), "info", t),
                    !.consolidation = ev.cons]
          ELSE IF ev.phase = "complete"
            THEN [st2 EXCEPT
                    !.logs = addLogMessage(st2.logs,
                               LogMessage("Sync complete (100%)", ""), "info", t)]
          ELSE st2

\* processed / total as the tracking handlers take them: the first account
\* entry when there is one, else the totals.
ProcessedValue(ev) ==
  IF ev.accounts # <<>> THEN ev.accounts[1].processed ELSE ev.processed

TotalValue(ev) ==
  IF ev.accounts # <<>> THEN ev.accounts[1].total ELSE ev.total

\* "Ensure sensible values" and "scale down large numbers".
NormalizeProgress(pr) ==
  LET p1 == IF pr.total <= 0 /\ pr.processed > 0
              THEN [pr EXCEPT !.total = pr.processed] ELSE pr
      p2 == IF p1.processed > p1.total /\ p1.total > 0
              THEN [p1 EXCEPT !.processed = p1.total] ELSE p1
  IN IF p2.total > SCALE_THRESHOLD
       THEN [p2 EXCEPT !.total = 100,
                       !.processed = RoundPercent(p2.processed, p2.total)]
       ELSE p2

TrackingDetails(ev) ==
  <<[updated |-> ev.ok, alreadyTracked |-> ev.already, phase |-> ev.phase]>>

handleTrackingProgress(st, ev, t) ==
  LET st1 == LogEvent(st, ev, "", ev.logType, t)
  IN IF IsLogOnly(ev) \/ ~ev.hasTotal THEN st1
     ELSE [st1 EXCEPT
             !.progress = NormalizeProgress(
                            [processed |-> ProcessedValue(ev),
                             total |-> TotalValue(ev),
                             successful |-> ev.ok + ev.already,
                             failed |-> ev.nErrors]),
             !.accounts = ev.accounts,
             !.trackingDetails = TrackingDetails(ev)]

\* The incremental update shared by the two multi-account handlers.
AddDelta(st, processed, okCount, failedCount) ==
  [st EXCEPT
     !.progress.processed = @ + processed - st.currentAccountProgress.processed,
     !.progress.successful = @ + okCount - st.currentAccountProgress.successful,
     !.progress.failed = @ + failedCount - st.currentAccountProgress.failed,
     !.currentAccountProgress = [processed |-> processed,
                                 successful |-> okCount,
                                 failed |-> failedCount]]

handleMultiAccountSyncProgress(st, ev, name, t) ==
  LET st1 == LogEvent(st, ev, name, "info", t)
  IN IF IsLogOnly(ev) \/ ~ev.hasTotal THEN st1
     ELSE
       LET st2 == AddDelta(st1,
                    IF ev.phase = "complete" THEN ev.total ELSE ev.processed,
                    ev.ok, SyncFailed(ev))
           st3 == [st2 EXCEPT !.accounts = ev.accounts]
       IN IF ev.phase = "creation" /\ ev.cons # -1
            THEN [st3 EXCEPT !.consolidation = ev.cons]
            ELSE st3

handleMultiAccountTrackingProgress(st, ev, name, t) ==
  LET st1 == LogEvent(st, ev, name, ev.logType, t)
  IN IF IsLogOnly(ev) \/ ~ev.hasTotal THEN st1
     ELSE [AddDelta(st1, ProcessedValue(ev), ev.ok + ev.already, ev.nErrors)
             EXCEPT !.accounts = ev.accounts,
                    !.trackingDetails = TrackingDetails(ev)]

(***************************************************************************)
(* The run functions.  A run function executes synchronously up to its     *)
(* first await, so the check of isRunning and resetSyncStatus are one      *)
(* step; every later step is the code between two awaits.                  *)
(***************************************************************************)
RunFns == {"runSyncOrders", "runTrackingUpdate", "runAllSyncOrders",
           "runAllTrackingUpdates"}

TypeOf(fn) ==
  IF fn \in {"runSyncOrders", "runAllSyncOrders"} THEN "sync" ELSE "tracking"

IsMulti(fn) == fn \in {"runAllSyncOrders", "runAllTrackingUpdates"}

ZeroOverall ==
  [success |-> TRUE, accounts |-> <<>>, total |-> 0, processed |-> 0, ok |-> 0,
   already |-> 0, nErrors |-> 0]

RemoveAt(s, k) == [j \in 1..(Len(s) - 1) |-> IF j < k THEN s[j] ELSE s[j + 1]]

RECURSIVE SumProcessed(_)
SumProcessed(accs) ==
  IF accs = <<>> THEN 0 ELSE accs[1].processed + SumProcessed(Tail(accs))

RECURSIVE SumTotal(_)
SumTotal(accs) ==
  IF accs = <<>> THEN 0 ELSE accs[1].total + SumTotal(Tail(accs))

\* if (syncStatus.isRunning) ...
AlreadyRunningNever == FALSE

AlreadyRunning == syncStatus.isRunning

Answered(src, outcome) ==
  /\ lastReq' = outcome

\* Mutant: the status is reset before the running check rejects the request.
ConflictAfterReset(src) ==
  /\ Answered(src, "conflict")
  /\ syncStatus' = resetSyncStatus(syncStatus, "sync", FALSE, now)
  /\ UNCHANGED <<env, accountsFile, now, runs, accepted, notServer>>

\* return { success: false, error: 'A sync or tracking update is already
\* running' }  /  res.status(409)
Conflict(src) ==
  /\ Answered(src, "conflict")
  /\ UNCHANGED <<env, accountsFile, now, syncStatus, runs, accepted, notServer>>

\* res.status(400)
BadRequest(src) ==
  /\ Answered(src, "bad request")
  /\ UNCHANGED <<env, accountsFile, now, syncStatus, runs, accepted, notServer>>

\* The synchronous head of a run function that passed the running check.
Accept(src, fn, accountId, isScheduled) ==
  LET st1 == resetSyncStatus(syncStatus, TypeOf(fn), isScheduled, now)
      st2 == IF IsMulti(fn) THEN st1
             ELSE [st1 EXCEPT !.logs = addLogMessage(st1.logs,
                                 LogMessage("Starting", accountId), "info", now)]
  IN /\ Len(runs) < MaxActive
     /\ accepted < MaxRuns
     /\ accepted' = accepted + 1
     /\ Answered(src, "started")
     /\ syncStatus' = st2
     /\ runs' = Append(runs, [fn |-> fn, accountId |-> accountId,
                              isScheduled |-> isScheduled, pc |-> "getAccounts",
                              accounts |-> <<>>, i |-> 0, nEvents |-> 0,
                              overall |-> ZeroOverall])
     /\ UNCHANGED <<env, accountsFile, now, notServer>>

\* runSyncOrders / runTrackingUpdate / runAllSyncOrders / runAllTrackingUpdates
RunFn(src, fn, accountId, isScheduled) ==
  IF AlreadyRunning THEN Conflict(src) ELSE Accept(src, fn, accountId, isScheduled)

\* The function a scheduled job of a type runs in the configured mode.
ScheduledFn(jobType, forAll) ==
  IF forAll
    THEN (IF jobType = "sync" THEN "runAllSyncOrders" ELSE "runAllTrackingUpdates")
    ELSE (IF jobType = "sync" THEN "runSyncOrders" ELSE "runTrackingUpdate")

\* POST /api/sync
PostSync(accountId) ==
  IF accountId = Null THEN BadRequest("POST /api/sync")
  ELSE IF AlreadyRunning THEN Conflict("POST /api/sync")
  ELSE RunFn("POST /api/sync", "runSyncOrders", accountId, FALSE)

\* POST /api/tracking
PostTracking(accountId) ==
  IF accountId = Null THEN BadRequest("POST /api/tracking")
  ELSE IF AlreadyRunning THEN Conflict("POST /api/tracking")
  ELSE RunFn("POST /api/tracking", "runTrackingUpdate", accountId, FALSE)

\* POST /api/run-scheduled
PostRunScheduled(jobType) ==
  IF AlreadyRunning THEN Conflict("POST /api/run-scheduled")
  ELSE IF jobType \notin {"sync", "tracking"} THEN BadRequest("POST /api/run-scheduled")
  ELSE IF env.SYNC_ALL_ACCOUNTS
    THEN RunFn("POST /api/run-scheduled", ScheduledFn(jobType, TRUE), Null, TRUE)
  ELSE IF env.SCHEDULED_ACCOUNT # Null
    THEN RunFn("POST /api/run-scheduled", ScheduledFn(jobType, FALSE),
               env.SCHEDULED_ACCOUNT, TRUE)
  ELSE BadRequest("POST /api/run-scheduled")

\* initializeScheduledJobs: which jobs were scheduled at startup.
ScheduledMode ==
  IF env.SYNC_ALL_ACCOUNTS
    THEN (IF getEnabledAccounts(Null).ok THEN "all" ELSE "none")
  ELSE IF env.SCHEDULED_ACCOUNT # Null
    THEN (IF getEnabledAccounts(env.SCHEDULED_ACCOUNT).ok THEN "single" ELSE "none")
  ELSE "none"

\* The callback of scheduleJob fires.
CronJob(jobType) ==
  /\ ScheduledMode # "none"
  /\ IF ScheduledMode = "all"
       THEN RunFn("cron", ScheduledFn(jobType, TRUE), Null, TRUE)
       ELSE RunFn("cron", ScheduledFn(jobType, FALSE), env.SCHEDULED_ACCOUNT, TRUE)

(***************************************************************************)
(* Steps of an accepted run.                                               *)
(***************************************************************************)
\* Mutant: the catch block leaves the running flag as it is.
RunCatchKeepsFlag(st, t) ==
  [st EXCEPT !.logs = addLogMessage(st.logs, LogMessage("Error", ""), "error", t)]

\* The catch block of a run function: the run ends with an error.
RunCatch(st, t) ==
  [st EXCEPT !.isRunning = FALSE,
             !.logs = addLogMessage(st.logs, LogMessage("Error", ""), "error", t)]

\* Head of the loop body of the multi-account functions for account name.
StartAccount(st, name, t) ==
  [st EXCEPT !.logs = addLogMessage(st.logs, LogMessage("Starting account", name),
                                    "info", t),
             !.currentAccountProgress = ZeroAccountProgress]

\* "Update final status" of runSyncOrders.
FinishSync(st, result, t) ==
  [st EXCEPT !.isRunning = FALSE,
             !.progress = [total |-> result.total, processed |-> result.total,
                           successful |-> result.ok,
                           failed |-> result.nErrors + result.invalid],
             !.accounts = result.accounts,
             !.logs = addLogMessage(st.logs, LogMessage("Sync completed", ""),
                                    "info", t)]

\* "Update final status" of runTrackingUpdate.
FinishTracking(st, result, t) ==
  [st EXCEPT !.isRunning = FALSE,
             !.progress =
                IF result.accounts # <<>>
                  THEN [processed |-> SumProcessed(result.accounts),
                        total |-> SumTotal(result.accounts),
                        successful |-> result.ok + result.already,
                        failed |-> result.nErrors]
                  ELSE [processed |-> result.processed,
                        total |-> result.processed,
                        successful |-> result.ok + result.already,
                        failed |-> result.nErrors],
             !.accounts = result.accounts,
             !.logs = addLogMessage(st.logs,
                        LogMessage("Tracking update completed", ""), "success", t)]

\* "Update final status" of the multi-account functions.
FinishMulti(st, overall, t) ==
  [st EXCEPT !.isRunning = FALSE,
             !.progress = [total |-> overall.total,
                           processed |-> overall.processed,
                           successful |-> overall.ok + overall.already,
                           failed |-> overall.nErrors],
             !.accounts = overall.accounts,
             !.logs = addLogMessage(st.logs,
                        LogMessage("Multi-account run completed", ""), "info", t)]

\* await getEnabledAccounts(...) resolves or throws.
GetAccounts(k) ==
  LET r   == runs[k]
      res == getEnabledAccounts(r.accountId)
  IN /\ r.pc = "getAccounts"
     /\ IF ~res.ok
          THEN /\ syncStatus' = RunCatch(syncStatus, now)
               /\ runs' = RemoveAt(runs, k)
        ELSE IF IsMulti(r.fn)
          THEN /\ syncStatus' =
                    StartAccount(
                      [syncStatus EXCEPT
                         !.logs = addLogMessage(
                                    addLogMessage(@, LogMessage("Starting all", ""),
                                                  "info", now),
                                    LogMessage("Accounts to process", ""), "info", now)],
                      res.accounts[1], now)
               /\ runs' = [runs EXCEPT ![k].pc = "pipeline",
                                       ![k].accounts = res.accounts, ![k].i = 1]
        ELSE   /\ syncStatus' = syncStatus
               /\ runs' = [runs EXCEPT ![k].pc = "pipeline",
                                       ![k].accounts = res.accounts, ![k].i = 1]
     /\ lastReq' = "none"
     /\ UNCHANGED <<env, accountsFile, now, accepted, notServer>>

\* The pipeline of run k calls the progress callback with event ev.
Progress(k, ev) ==
  LET r    == runs[k]
      name == r.accounts[r.i]
  IN /\ r.pc = "pipeline"
     /\ r.nEvents < MaxEvents
     /\ ev \in (IF TypeOf(r.fn) = "sync" THEN SyncEvents(name)
                                         ELSE TrackingEvents(name))
     /\ syncStatus' =
          CASE r.fn = "runSyncOrders" -> handleSyncProgress(syncStatus, ev, now)
            [] r.fn = "runTrackingUpdate" -> handleTrackingProgress(syncStatus, ev, now)
            [] r.fn = "runAllSyncOrders" ->
                 handleMultiAccountSyncProgress(syncStatus, ev, name, now)
            [] r.fn = "runAllTrackingUpdates" ->
                 handleMultiAccountTrackingProgress(syncStatus, ev, name, now)
     /\ runs' = [runs EXCEPT ![k].nEvents = @ + 1]
     /\ lastReq' = "none"
     /\ UNCHANGED <<env, accountsFile, now, accepted, notServer>>

\* The multi-account loop goes on to the next account or finishes the run.
ContinueMulti(k, st, overall) ==
  LET r == runs[k]
  IN IF r.i < Len(r.accounts)
       THEN /\ syncStatus' = StartAccount(st, r.accounts[r.i + 1], now)
            /\ runs' = [runs EXCEPT ![k].i = @ + 1, ![k].overall = overall]
       ELSE /\ syncStatus' = FinishMulti(st, overall, now)
            /\ runs' = RemoveAt(runs, k)

\* await syncOrders(...) / updateTracking(...) resolves with a result.
PipelineResolve(k, result) ==
  LET r    == runs[k]
      name == r.accounts[r.i]
  IN /\ r.pc = "pipeline"
     /\ result \in (IF TypeOf(r.fn) = "sync" THEN SyncResults(name)
                                             ELSE TrackingResults(name))
     /\ CASE r.fn = "runSyncOrders" ->
               /\ syncStatus' = FinishSync(syncStatus, result, now)
               /\ runs' = RemoveAt(runs, k)
          [] r.fn = "runTrackingUpdate" ->
               /\ syncStatus' = FinishTracking(syncStatus, result, now)
               /\ runs' = RemoveAt(runs, k)
          [] IsMulti(r.fn) ->
               ContinueMulti(k,
                 [syncStatus EXCEPT
                    !.logs = addLogMessage(@, LogMessage("Completed account", name),
                                           "info", now)],
                 [r.overall EXCEPT
                    !.accounts = Append(@, [AccountEntry(name, 0, 0)
                                              EXCEPT !.success = "true"]),
                    !.total = @ + result.total,
                    !.processed = @ + result.processed,
                    !.ok = @ + result.ok,
                    !.already = @ + result.already,
                    !.nErrors = @ + result.nErrors])
     /\ lastReq' = "none"
     /\ UNCHANGED <<env, accountsFile, now, accepted, notServer>>

\* await syncOrders(...) / updateTracking(...) throws.
PipelineReject(k) ==
  LET r    == runs[k]
      name == r.accounts[r.i]
  IN /\ r.pc = "pipeline"
     /\ IF IsMulti(r.fn)
          THEN ContinueMulti(k,
                 [syncStatus EXCEPT
                    !.logs = addLogMessage(@, LogMessage("Error in account", name),
                                           "error", now)],
                 [r.overall EXCEPT
                    !.accounts = Append(@, [AccountEntry(name, 0, 0)
                                              EXCEPT !.success = "false"]),
                    !.success = FALSE])
          ELSE /\ syncStatus' = RunCatch(syncStatus, now)
               /\ runs' = RemoveAt(runs, k)
     /\ lastReq' = "none"
     /\ UNCHANGED <<env, accountsFile, now, accepted, notServer>>

\* Time passes while a run is in flight (the timestamps of a run's events
\* and the de-duplication window are the only readers of the clock).
Tick ==
  /\ runs # <<>>
  /\ now < MaxTicks * TickMs
  /\ now' = now + TickMs
  /\ lastReq' = "none"
  /\ UNCHANGED <<env, accountsFile, syncStatus, runs, accepted, notServer>>

AccountsFiles ==
  { <<[name |-> "a1", shipstationStoreId |-> "s1", enabled |-> TRUE],
      [name |-> "a2", shipstationStoreId |-> "s2", enabled |-> TRUE]>>,
    <<[name |-> "a1", shipstationStoreId |-> "s1", enabled |-> TRUE],
      [name |-> "a2", shipstationStoreId |-> "s2", enabled |-> FALSE]>>,
    <<[name |-> "a1", shipstationStoreId |-> "s1", enabled |-> FALSE],
      [name |-> "a2", shipstationStoreId |-> "s2", enabled |-> FALSE]>> }

AllEvents == UNION {SyncEvents(n) \cup TrackingEvents(n) : n \in AccountNames}

AllResults == UNION {SyncResults(n) \cup TrackingResults(n) : n \in AccountNames}

\* SYNC_ALL_ACCOUNTS wins over SCHEDULED_ACCOUNT wherever both are read.
Environments ==
  { [SYNC_ALL_ACCOUNTS |-> TRUE, SCHEDULED_ACCOUNT |-> Null],
    [SYNC_ALL_ACCOUNTS |-> FALSE, SCHEDULED_ACCOUNT |-> "a1"],
    [SYNC_ALL_ACCOUNTS |-> FALSE, SCHEDULED_ACCOUNT |-> Null] }

ServerIdle ==
  /\ now = 0
  /\ syncStatus = IdleStatus
  /\ runs = <<>>
  /\ lastReq = "none"
  /\ accepted = 0


(***************************************************************************)
(* TRACKING UPDATE  (scripts/update-tracking.js, utils/tracking-state.js,  *)
(* utils/sync-management.js, services/shipstation.js, services/whatnot.js) *)
(*                                                                         *)
(* One account's tracking update: updateTracking([account], callback)      *)
(* running processAccount.  Time is counted in ticks, DayLen ticks to the  *)
(* calendar day.  A shipment is known by its id; shipments[id] is its      *)
(* createDate.  Each action is the code between two awaits.               *)
(***************************************************************************)
NoFile == -1

NoShipment == 0

Absent == -1

DEFAULT_LOOKBACK_DAYS == 2

\* new Date(t).toISOString().split('T')[0]
DateOf(t) == t \div DayLen

\* shipment.shipmentItems.map(item => item.sku).filter(Boolean): one entry
\* per line item, and the line items of a shipping order carry the id of
\* their marketplace order as sku.  Shipment 3 has two line items of order 31.
Skus(id) == IF id = 3 THEN <<31, 31>> ELSE <<10 * id + 1>>

ShipmentResult(id) == [shipmentId |-> id, whatnotOrderIds |-> Skus(id)]

loadSyncTime ==
  IF syncTimeFile = NoFile
    THEN clock - DEFAULT_LOOKBACK_DAYS * DayLen
    ELSE syncTimeFile

NoState == [lastProcessedShipmentId |-> NoShipment,
            processedShipmentIds |-> <<>>, lastSyncTime |-> NoFile,
            exists |-> FALSE]

\* A state file that would list the whole filtered batch as processed.
StateRecordBatch(last, ids, t) ==
  [lastProcessedShipmentId |-> last,
   processedShipmentIds |->
     [k \in DOMAIN filteredOrders |-> filteredOrders[k].shipmentId],
   lastSyncTime |-> t, exists |-> TRUE]

StateRecord(last, ids, t) ==
  [lastProcessedShipmentId |-> last, processedShipmentIds |-> ids,
   lastSyncTime |-> t, exists |-> TRUE]

loadTrackingState == trackingStateFile

RECURSIVE ShipmentsBetween(_, _, _)
ShipmentsBetween(id, startDate, endDate) ==
  IF id > Len(shipments) THEN <<>>
  ELSE (IF DateOf(shipments[id]) >= startDate /\ DateOf(shipments[id]) <= endDate
          THEN <<ShipmentResult(id)>> ELSE <<>>)
       \o ShipmentsBetween(id + 1, startDate, endDate)

getShippedOrdersWithTracking(startDate) ==
  ShipmentsBetween(1, startDate, DateOf(clock))

FilterNothing(list, processed) == list

FilterProcessed(list, processed) ==
  SelectSeq(list, LAMBDA order : order.shipmentId \notin Range(processed))

LoopDoneEarly == ti >= 1

LoopDone == ti >= Len(filteredOrders)

ZeroResults == [processed |-> 0, updated |-> 0, alreadyTracked |-> 0,
                errors |-> <<>>]

ZeroUpdateResult == [successful |-> 0, failed |-> <<>>]

\* What the marketplace answers to addTrackingCode for one order: "ok", or
\* the message of the error it raises.
PushAnswers == {"ok", "cannot override tracking code", "request failed"}

\* The same with the second text that processAccount takes for an order
\* that is tracked already.
ClassifyAnswers == PushAnswers \cup {"already has tracking"}

\* Mutant: no failure is taken for an already tracked order.
isAlreadyTrackedNever(error) == FALSE

isAlreadyTracked(error) ==
  error \in {"cannot override tracking code", "already has tracking"}


ZeroTotals == [total |-> [processed |-> 0, updated |-> 0, errors |-> 0,
                          total |-> Absent],
               accounts |-> <<>>]

NoEvent == [phase |-> "none", logOnly |-> TRUE, hasTotal |-> FALSE,
            processed |-> 0, total |-> 0, updated |-> 0,
            alreadyTracked |-> Absent, errors |-> 0]

ProgressEvent(phase, logOnly, processed, total, updated, already, errors) ==
  [phase |-> phase, logOnly |-> logOnly, hasTotal |-> TRUE,
   processed |-> processed, total |-> total, updated |-> updated,
   alreadyTracked |-> already, errors |-> errors]

LogOnlyEvent == [NoEvent EXCEPT !.phase = "log"]

reportProgress(res, totalCount, currentIndex) ==
  ProgressEvent("update", FALSE, currentIndex, totalCount, res.updated,
                res.alreadyTracked, Len(res.errors))

AccountOf(progress) ==
  [processed |-> progress.processed, total |-> progress.total,
   updated |-> progress.updated, errors |-> progress.errors]

\* The callback that updateTracking hands to processAccount: it folds the
\* event into results and passes the event on with results.total in place
\* of the event's own totals.
wrappedCallback(res, progress) ==
  IF progress.hasTotal /\ ~progress.logOnly
    THEN [total |-> [res.total EXCEPT
                       !.processed = @ + progress.processed,
                       !.updated = @ + progress.updated,
                       !.errors = @ + progress.errors],
          accounts |-> <<AccountOf(progress)>>]
    ELSE res

Delivered(res, progress) ==
  [phase |-> progress.phase, total |-> res.total, accounts |-> res.accounts]

RECURSIVE Deliver(_, _)
Deliver(res, events) ==
  IF events = <<>> THEN res
  ELSE Deliver(wrappedCallback(res, Head(events)), Tail(events))

\* The tail of updateTracking once processAccount has returned.
Totalled(res, accountResult) ==
  [total |-> [res.total EXCEPT
                !.processed = @ + accountResult.processed,
                !.updated = @ + accountResult.updated,
                !.errors = @ + Len(accountResult.errors)],
   accounts |-> Append(res.accounts,
                       [processed |-> accountResult.processed,
                        total |-> Absent,
                        updated |-> accountResult.updated,
                        errors |-> Len(accountResult.errors)])]

FinalTotal(res) ==
  IF res.total.processed = 0 /\ res.total.updated = 0 /\ res.total.errors = 0
    THEN [res EXCEPT !.total.processed = 1, !.total.total = 1]
    ELSE res

\* processAccount returns accountResult after emitting events.
Return(events, accountResult, outcome) ==
  /\ paResult' = accountResult
  /\ utPc' = "done"
  /\ sinceRun' = outcome
  /\ IF withCallback
       THEN LET res == FinalTotal(Deliver(utResults, events))
            IN /\ utResults' = res
               /\ lastEvent' = Delivered(res, [phase |-> "complete"])
       ELSE /\ utResults' = Totalled(utResults, accountResult)
            /\ UNCHANGED lastEvent

Emit(events) ==
  IF withCallback /\ events # <<>>
    THEN LET res == Deliver(utResults, events)
         IN /\ utResults' = res
            /\ lastEvent' = Delivered(res, events[Len(events)])
    ELSE UNCHANGED <<utResults, lastEvent>>

\* The catch block of processAccount.
PaCatch ==
  /\ Return(<<ProgressEvent("error", FALSE, 0, 0, 0, Absent, 1)>>,
            [ZeroResults EXCEPT !.alreadyTracked = Absent,
                                !.errors = <<NoShipment>>],
            "failed")
  /\ UNCHANGED <<results, newlyProcessedShipmentIds, ti, oj, updateResult,
                 currentTime>>

PersistedFiles == <<syncTimeFile, trackingStateFile>>

\* A failed request, a failed write or a crash: at most MaxFaults of them.
Fault(happens) ==
  IF happens
    THEN faults < MaxFaults /\ faults' = faults + 1
    ELSE UNCHANGED faults

Platform == <<clock, shipments>>

Locals == <<lastSyncTime, processedShipmentIds, orders, filteredOrders, ti, oj,
            updateResult, results, newlyProcessedShipmentIds, currentTime>>

IdleLocals ==
  /\ lastSyncTime = NoFile
  /\ processedShipmentIds = <<>>
  /\ orders = <<>>
  /\ filteredOrders = <<>>
  /\ ti = 0
  /\ oj = 0
  /\ updateResult = ZeroUpdateResult
  /\ results = ZeroResults
  /\ newlyProcessedShipmentIds = <<>>
  /\ currentTime = NoFile
  /\ paResult = ZeroResults
  /\ utResults = ZeroTotals
  /\ lastEvent = Delivered(ZeroTotals, NoEvent)
  /\ pushes = <<>>

\* The locals of a fresh invocation.
ResetLocals ==
  /\ lastSyncTime' = NoFile
  /\ processedShipmentIds' = <<>>
  /\ orders' = <<>>
  /\ filteredOrders' = <<>>
  /\ ti' = 0
  /\ oj' = 0
  /\ updateResult' = ZeroUpdateResult
  /\ results' = ZeroResults
  /\ newlyProcessedShipmentIds' = <<>>
  /\ currentTime' = NoFile
  /\ paResult' = ZeroResults
  /\ utResults' = ZeroTotals
  /\ lastEvent' = Delivered(ZeroTotals, NoEvent)
  /\ pushes' = <<>>

updateTracking(callback) ==
  /\ utPc \in {"idle", "done"}
  /\ withCallback' = callback
  /\ utPc' = "getLastSyncTime"
  /\ ResetLocals
  /\ resumeSet' = Range(trackingStateFile.processedShipmentIds)
  /\ quietStart' = (sinceRun = "complete" /\ paResult.errors = <<>> /\ ~shippedSince)
  /\ resumed' = (sinceRun = "crashed")
  /\ sinceRun' = "running"
  /\ failedBefore' = IF sinceRun = "complete" THEN failedPushes ELSE {}
  /\ failedPushes' = {}
  /\ UNCHANGED <<Platform, PersistedFiles, shippedSince, faults>>
  /\ UNCHANGED notTrackingRetry

getLastSyncTime ==
  /\ utPc = "getLastSyncTime"
  /\ lastSyncTime' = loadSyncTime
  /\ utPc' = "loadTrackingState"
  /\ UNCHANGED <<Platform, PersistedFiles, withCallback, processedShipmentIds,
                 orders, filteredOrders, ti, oj, updateResult, results,
                 newlyProcessedShipmentIds, currentTime, paResult, utResults,
                 lastEvent, pushes, resumeSet, quietStart, resumed, sinceRun,
                 shippedSince, faults>>
  /\ UNCHANGED notTracking

LoadTrackingState ==
  /\ utPc = "loadTrackingState"
  /\ processedShipmentIds' = loadTrackingState.processedShipmentIds
  /\ Emit(<<[LogOnlyEvent EXCEPT !.phase = "fetch"]>>)
  /\ utPc' = "fetch"
  /\ UNCHANGED <<Platform, PersistedFiles, withCallback, lastSyncTime,
                 orders, filteredOrders, ti, oj, updateResult, results,
                 newlyProcessedShipmentIds, currentTime, paResult,
                 pushes, resumeSet, quietStart, resumed, sinceRun,
                 shippedSince, faults>>
  /\ UNCHANGED notTracking

\* An event that would report the empty batch as it is: 0 of 0.
UpToDateEventZero == ProgressEvent("complete", FALSE, 0, 0, 0, 0, 0)

\* The event of processAccount for an empty filtered batch: processed 1 of
\* total 1, "to show progress".
UpToDateEvent == ProgressEvent("complete", FALSE, 1, 1, 0, 0, 0)

Fetch(ok) ==
  /\ utPc = "fetch"
  /\ Fault(~ok)
  /\ shippedSince' = FALSE
  /\ quietStart' = (quietStart /\ ~shippedSince)
  /\ UNCHANGED <<Platform, PersistedFiles, withCallback, lastSyncTime,
                 processedShipmentIds, pushes, resumeSet, resumed>>
  /\ UNCHANGED notTracking
  /\ IF ~ok
       THEN PaCatch /\ UNCHANGED <<orders, filteredOrders>>
       ELSE LET fetched  == getShippedOrdersWithTracking(DateOf(lastSyncTime))
                filtered == FilterProcessed(fetched, processedShipmentIds)
                found    == ProgressEvent("fetch_complete", FALSE, 0,
                                          Len(filtered), 0, Absent, 0)
            IN /\ orders' = fetched
               /\ filteredOrders' = filtered
               /\ IF filtered = <<>>
                    THEN /\ Return(<<found, UpToDateEvent>>,
                                   [ZeroResults EXCEPT !.alreadyTracked = Absent],
                                   "complete")
                         /\ UNCHANGED <<results, newlyProcessedShipmentIds, ti,
                                        oj, updateResult, currentTime>>
                    ELSE /\ Emit(<<found>>)
                         /\ results' = ZeroResults
                         /\ newlyProcessedShipmentIds' = processedShipmentIds
                         /\ ti' = 1
                         /\ oj' = 1
                         /\ updateResult' = ZeroUpdateResult
                         /\ utPc' = "push"
                         /\ UNCHANGED <<currentTime, paResult, sinceRun>>

\* One addTrackingCode call of whatnot.updateOrdersTracking; after the last
\* order of the shipment, the bookkeeping of processAccount up to the await
\* of saveTrackingState.
PushOrder(answer) ==
  /\ utPc = "push"
  /\ Fault(answer = "request failed")
  /\ UNCHANGED <<Platform, PersistedFiles, withCallback, lastSyncTime,
                 processedShipmentIds, orders, filteredOrders, ti, currentTime,
                 paResult, resumeSet, quietStart, resumed, sinceRun,
                 shippedSince, failedBefore>>
  /\ UNCHANGED notTrackingRetry
  /\ failedPushes' = IF answer = "request failed"
                       THEN failedPushes \cup {filteredOrders[ti].shipmentId}
                       ELSE failedPushes
  /\ LET shipment == filteredOrders[ti]
         orderId  == shipment.whatnotOrderIds[oj]
         ur == IF answer = "ok"
                 THEN [updateResult EXCEPT !.successful = @ + 1]
                 ELSE [updateResult EXCEPT !.failed = Append(@, answer)]
         already == Len(SelectSeq(ur.failed, isAlreadyTracked))
         actual  == Len(ur.failed) - already
     IN /\ pushes' = Append(pushes, [shipmentId |-> shipment.shipmentId,
                                     orderId |-> orderId])
        /\ updateResult' = ur
        /\ IF oj < Len(shipment.whatnotOrderIds)
             THEN /\ oj' = oj + 1
                  /\ UNCHANGED <<utPc, results, newlyProcessedShipmentIds,
                                 utResults, lastEvent>>
             ELSE /\ results' =
                       [processed |-> results.processed + 1,
                        updated |-> results.updated + ur.successful,
                        alreadyTracked |-> results.alreadyTracked + already,
                        errors |-> results.errors
                                    \o [k \in 1..actual |-> shipment.shipmentId]]
                  /\ newlyProcessedShipmentIds' =
                       Append(newlyProcessedShipmentIds, shipment.shipmentId)
                  /\ Emit(IF actual > 0 THEN <<LogOnlyEvent>> ELSE <<>>)
                  /\ utPc' = "saveTrackingState"
                  /\ UNCHANGED oj

\* The loop header after shipment ti has been handled.
NextShipment ==
  IF LoopDone
    THEN /\ currentTime' = clock
         /\ utPc' = "saveLastSyncTime"
         /\ UNCHANGED <<ti, oj, updateResult>>
    ELSE /\ ti' = ti + 1
         /\ oj' = 1
         /\ updateResult' = ZeroUpdateResult
         /\ utPc' = "push"
         /\ UNCHANGED currentTime

\* The per-shipment saveTrackingState; when the write fails the catch block
\* of the loop body runs.
SaveTrackingState(ok) ==
  /\ utPc = "saveTrackingState"
  /\ Fault(~ok)
  /\ UNCHANGED <<Platform, syncTimeFile, withCallback, lastSyncTime,
                 processedShipmentIds, orders, filteredOrders,
                 newlyProcessedShipmentIds, paResult, pushes, resumeSet,
                 quietStart, resumed, sinceRun, shippedSince>>
  /\ UNCHANGED notTracking
  /\ NextShipment
  /\ IF ok
       THEN /\ trackingStateFile' =
                 StateRecord(filteredOrders[ti].shipmentId,
                             newlyProcessedShipmentIds, lastSyncTime)
            /\ Emit(<<reportProgress(results, Len(filteredOrders), ti)>>)
            /\ UNCHANGED results
       ELSE LET res == [results EXCEPT
                          !.processed = @ + 1,
                          !.errors = Append(@, filteredOrders[ti].shipmentId)]
            IN /\ results' = res
               /\ Emit(<<LogOnlyEvent,
                         reportProgress(res, Len(filteredOrders), ti)>>)
               /\ UNCHANGED trackingStateFile

SaveLastSyncTime(ok) ==
  /\ utPc = "saveLastSyncTime"
  /\ Fault(~ok)
  /\ UNCHANGED <<Platform, trackingStateFile, withCallback, lastSyncTime,
                 processedShipmentIds, orders, filteredOrders, pushes,
                 resumeSet, quietStart, resumed, shippedSince>>
  /\ UNCHANGED notTracking
  /\ IF ok
       THEN /\ syncTimeFile' = currentTime
            /\ utPc' = "resetTrackingState"
            /\ UNCHANGED <<results, newlyProcessedShipmentIds, ti, oj,
                           updateResult, currentTime, paResult, utResults,
                           lastEvent, sinceRun>>
       ELSE PaCatch /\ UNCHANGED syncTimeFile

ResetTrackingState(ok) ==
  /\ utPc = "resetTrackingState"
  /\ Fault(~ok)
  /\ UNCHANGED <<Platform, syncTimeFile, withCallback, lastSyncTime,
                 processedShipmentIds, orders, filteredOrders, pushes,
                 resumeSet, quietStart, resumed, shippedSince>>
  /\ UNCHANGED notTracking
  /\ IF ok
       THEN /\ trackingStateFile' = StateRecord(NoShipment, <<>>, currentTime)
            /\ Return(<<ProgressEvent("complete", FALSE, Len(filteredOrders),
                                      Len(filteredOrders), results.updated,
                                      results.alreadyTracked,
                                      Len(results.errors))>>,
                      results, "complete")
            /\ UNCHANGED <<results, newlyProcessedShipmentIds, ti, oj,
                           updateResult, currentTime>>
       ELSE PaCatch /\ UNCHANGED trackingStateFile

\* The process dies in the middle of a run: the files stay as they are.
CrashTracking ==
  /\ utPc \notin {"idle", "done"}
  /\ Fault(TRUE)
  /\ utPc' = "idle"
  /\ sinceRun' = "crashed"
  /\ ResetLocals
  /\ resumeSet' = {}
  /\ quietStart' = FALSE
  /\ resumed' = FALSE
  /\ UNCHANGED <<Platform, PersistedFiles, withCallback, shippedSince>>
  /\ UNCHANGED notTracking

\* The fulfillment platform creates a shipment for the account's store.
Ship ==
  /\ Len(shipments) < MaxShipments
  /\ shipments' = Append(shipments, clock)
  /\ shippedSince' = TRUE
  /\ UNCHANGED <<clock, PersistedFiles, utPc, withCallback, Locals, paResult,
                 utResults, lastEvent, pushes, resumeSet, quietStart, resumed,
                 sinceRun, faults>>
  /\ UNCHANGED notTracking

TrackTick ==
  /\ clock < MaxClock
  /\ utPc \in {"idle", "done"}
  /\ clock' = clock + 1
  /\ UNCHANGED <<shipments, PersistedFiles, utPc, withCallback, Locals,
                 paResult, utResults, lastEvent, pushes, resumeSet, quietStart,
                 resumed, sinceRun, shippedSince, faults>>
  /\ UNCHANGED notTracking

TrackingIdle ==
  /\ utPc = "idle"
  /\ withCallback = FALSE
  /\ IdleLocals
  /\ resumeSet = {}
  /\ quietStart = FALSE
  /\ resumed = FALSE
  /\ sinceRun = "none"
  /\ shippedSince = FALSE
  /\ faults = 0

RetryQuiet ==
  /\ failedPushes = {}
  /\ failedBefore = {}

TrackingQuiet ==
  /\ clock = 0
  /\ shipments = <<>>
  /\ syncTimeFile = NoFile
  /\ trackingStateFile = NoState
  /\ TrackingIdle

(***************************************************************************)
(* ORDER SYNC  (scripts/sync-orders.js, services/whatnot.js,               *)
(* utils/cursor-management.js)                                             *)
(*                                                                         *)
(* One account's order sync.  The marketplace feed is the orders           *)
(* 1..feedLen in the order of the feed; a cursor is the position of the    *)
(* last order of a page.  getOrders asks for BATCH_SIZE = 50 orders a      *)
(* page; the model's pages hold MaxPage orders.                            *)
(***************************************************************************)
NoCursor == 0

\* OrderValidator.validateOrders: the orders it puts in `invalid`.
InvalidOrders == {2}

IsValid(order) == order \notin InvalidOrders

loadCursorNull == NoCursor

loadCursor == cursorFile

\* data.orders for the variables {first, after}: edges and pageInfo.
OrdersPage(after) ==
  LET last == Min2(after + MaxPage, feedLen)
  IN [edges |-> [k \in 1..(last - after) |-> after + k],
      hasNextPage |-> last < feedLen,
      endCursor |-> last]

soLocals == <<afterCursor, hasNextPage, edges, goOrders, valid, ci, created,
              createFailed>>

ResetSyncLocals ==
  /\ afterCursor' = NoCursor
  /\ hasNextPage' = TRUE
  /\ edges' = <<>>
  /\ goOrders' = <<>>
  /\ valid' = <<>>
  /\ ci' = 0
  /\ created' = 0
  /\ createFailed' = 0

SoFault(happens) ==
  IF happens
    THEN soFaults < MaxFaults /\ soFaults' = soFaults + 1
    ELSE UNCHANGED soFaults

SoReturn(result, outcome) ==
  /\ soResult' = result
  /\ soOutcome' = outcome
  /\ soPc' = "done"

\* The catch block of processAccount.
SoCatch ==
  SoReturn([processed |-> 0, created |-> 0, invalid |-> 0, errors |-> 1],
           "failed")

\* getOrders has returned list: processAccount up to its next await.
AfterGetOrders(list) ==
  IF list = <<>>
    THEN SoReturn([processed |-> 0, created |-> 0, invalid |-> 0,
                   errors |-> 0], "complete")
    ELSE soPc' = "validate" /\ UNCHANGED <<soResult, soOutcome>>

syncOrders ==
  /\ soPc \in {"idle", "done"}
  /\ soPc' = "loadCursor"
  /\ ResetSyncLocals
  /\ startCursor' = cursorFile
  /\ soOutcome' = "running"
  /\ UNCHANGED <<feedLen, cursorFile, soResult, submitted, returnedPersisted,
                 soFaults>>
  /\ UNCHANGED notOrders

LoadCursor ==
  /\ soPc = "loadCursor"
  /\ afterCursor' = loadCursor
  /\ soPc' = "query"
  /\ UNCHANGED <<feedLen, cursorFile, hasNextPage, edges, goOrders, valid, ci,
                 created, createFailed, soResult, soOutcome, submitted,
                 returnedPersisted, startCursor, soFaults>>
  /\ UNCHANGED notOrders

\* One executeQuery(GET_ORDERS) of the pagination loop.
FetchPage(ok) ==
  /\ soPc = "query"
  /\ SoFault(~ok)
  /\ UNCHANGED <<feedLen, cursorFile, valid, ci, created, createFailed,
                 submitted, returnedPersisted, startCursor>>
  /\ UNCHANGED notOrders
  /\ IF ~ok
       THEN /\ SoCatch
            /\ UNCHANGED <<afterCursor, hasNextPage, edges, goOrders>>
       ELSE LET data == OrdersPage(afterCursor)
            IN IF data.edges = <<>>
                 THEN /\ AfterGetOrders(goOrders)
                      /\ UNCHANGED <<afterCursor, hasNextPage, edges, goOrders>>
                 ELSE /\ goOrders' = goOrders \o data.edges
                      /\ edges' = data.edges
                      /\ hasNextPage' = data.hasNextPage
                      /\ afterCursor' = data.endCursor
                      /\ soPc' = "saveCursor"
                      /\ UNCHANGED <<soResult, soOutcome>>

\* A loop that would write the cursor it was started with.
savedCursorLoaded == startCursor

\* The cursor written by saveCursor(this.accountId, afterCursor).
savedCursor == afterCursor

\* saveCursor after a page, then the loop test.
SaveCursor(ok) ==
  /\ soPc = "saveCursor"
  /\ SoFault(~ok)
  /\ UNCHANGED <<feedLen, afterCursor, hasNextPage, edges, goOrders, valid, ci,
                 created, createFailed, submitted, startCursor>>
  /\ UNCHANGED notOrders
  /\ IF ~ok
       THEN SoCatch /\ UNCHANGED <<cursorFile, returnedPersisted>>
       ELSE /\ cursorFile' = savedCursor
            /\ returnedPersisted' = returnedPersisted \cup Range(edges)
            /\ IF hasNextPage
                 THEN soPc' = "query" /\ UNCHANGED <<soResult, soOutcome>>
                 ELSE AfterGetOrders(goOrders)

ValidateOrders ==
  /\ soPc = "validate"
  /\ UNCHANGED <<feedLen, cursorFile, afterCursor, hasNextPage, edges,
                 goOrders, created, createFailed, submitted,
                 returnedPersisted, startCursor, soFaults>>
  /\ UNCHANGED notOrders
  /\ LET ok == SelectSeq(goOrders, IsValid)
     IN /\ valid' = ok
        /\ IF ok = <<>>
             THEN /\ SoReturn([processed |-> Len(goOrders), created |-> 0,
                               invalid |-> Len(goOrders), errors |-> 0],
                              "complete")
                  /\ UNCHANGED ci
             ELSE /\ soPc' = "create"
                  /\ ci' = 1
                  /\ UNCHANGED <<soResult, soOutcome>>

\* createOrders submits the valid orders one request after the other.
CreateOrder(ok) ==
  /\ soPc = "create"
  /\ SoFault(~ok)
  /\ submitted' = submitted \cup {valid[ci]}
  /\ created' = IF ok THEN created + 1 ELSE created
  /\ createFailed' = IF ok THEN createFailed ELSE createFailed + 1
  /\ UNCHANGED <<feedLen, cursorFile, afterCursor, hasNextPage, edges,
                 goOrders, valid, returnedPersisted, startCursor>>
  /\ UNCHANGED notOrders
  /\ IF ci < Len(valid)
       THEN ci' = ci + 1 /\ UNCHANGED <<soPc, soResult, soOutcome>>
       ELSE /\ SoReturn([processed |-> Len(goOrders), created |-> created',
                         invalid |-> Len(goOrders) - Len(valid),
                         errors |-> createFailed'], "complete")
            /\ UNCHANGED ci

\* The process dies in the middle of a run: the cursor file stays.
CrashSync ==
  /\ soPc \notin {"idle", "done"}
  /\ SoFault(TRUE)
  /\ soPc' = "idle"
  /\ soOutcome' = "crashed"
  /\ ResetSyncLocals
  /\ UNCHANGED <<feedLen, cursorFile, soResult, submitted, returnedPersisted,
                 startCursor>>
  /\ UNCHANGED notOrders

\* A buyer places an order: the feed grows at its end.
NewOrder ==
  /\ feedLen < MaxOrders
  /\ feedLen' = feedLen + 1
  /\ UNCHANGED <<cursorFile, soPc, soLocals, soResult, soOutcome, submitted,
                 returnedPersisted, startCursor, soFaults>>
  /\ UNCHANGED notOrders

OrdersQuiet ==
  /\ feedLen = 0
  /\ cursorFile = NoCursor
  /\ soPc = "idle"
  /\ afterCursor = NoCursor
  /\ hasNextPage = TRUE
  /\ edges = <<>>
  /\ goOrders = <<>>
  /\ valid = <<>>
  /\ ci = 0
  /\ created = 0
  /\ createFailed = 0
  /\ soResult = [processed |-> 0, created |-> 0, invalid |-> 0, errors |-> 0]
  /\ soOutcome = "none"
  /\ submitted = {}
  /\ returnedPersisted = {}
  /\ startCursor = NoCursor
  /\ soFaults = 0

(***************************************************************************)
(* ORDER CONSOLIDATION  (utils/graphql-client.js, utils/formatting.js,     *)
(* utils/mapping.js, services/shipstation.js)                              *)
(*                                                                         *)
(* createOrders groups its batch by stream and customer, maps every group  *)
(* to one shipping order and posts it.  An order of the batch is the       *)
(* record of the fields that grouping and mapping read; its id is its      *)
(* position in the batch.  Time is counted in ticks, HourLen ticks to the  *)
(* hour.  A Map is the sequence of its entries in insertion order.         *)
(***************************************************************************)
StreamRefs == {Null, "s1", "s2"}

Usernames == {"u1", "u2"}

\* The orders a batch is drawn from.  What a cancelled order carries besides
\* cancelledAt is read by nobody: one cancelled order stands for all of them.
GroupingOrders ==
  { o \in [cancelledAt : BOOLEAN, reference : StreamRefs,
           createdAt : 0..MaxCreated, username : Usernames] :
      o.cancelledAt => (o.reference = "s1" /\ o.createdAt = 0 /\ o.username = "u1") }

WithIds(list) ==
  [k \in DOMAIN list |->
     [id |-> k, cancelledAt |-> list[k].cancelledAt,
      reference |-> list[k].reference, createdAt |-> list[k].createdAt,
      username |-> list[k].username]]

Batches == { WithIds(list) : list \in SeqsUpTo(GroupingOrders, MaxBatch) }

\* formatStreamId(timestamp): "YYMMDD-HHa/p", the hour of the timestamp.
formatStreamId(timestamp) == timestamp \div HourLen

\* Mutant: a Map that hands out its entries newest key first.
MapPushFront(map, key, fresh, order) ==
  IF \E k \in DOMAIN map : map[k].key = key
    THEN [k \in DOMAIN map |->
            IF map[k].key = key
              THEN [map[k] EXCEPT !.value.orders = Append(@, order)]
              ELSE map[k]]
    ELSE <<[key |-> key, value |-> [fresh EXCEPT !.orders = <<order>>]]>> \o map

\* if (!map.has(key)) map.set(key, fresh); map.get(key).orders.push(order)
MapPush(map, key, fresh, order) ==
  IF \E k \in DOMAIN map : map[k].key = key
    THEN [k \in DOMAIN map |->
            IF map[k].key = key
              THEN [map[k] EXCEPT !.value.orders = Append(@, order)]
              ELSE map[k]]
    ELSE Append(map, [key |-> key, value |-> [fresh EXCEPT !.orders = <<order>>]])

MapGet(map, key) == map[CHOOSE k \in DOMAIN map : map[k].key = key].value

\* streamOrders.sort((a, b) => new Date(a.createdAt) - new Date(b.createdAt)):
\* a stable sort.
RECURSIVE SortByCreatedAt(_)
SortByCreatedAt(list) ==
  IF list = <<>> THEN <<>>
  ELSE LET last   == list[Len(list)]
           sorted == SortByCreatedAt(SubSeq(list, 1, Len(list) - 1))
           before == Cardinality({k \in DOMAIN sorted :
                                     sorted[k].createdAt <= last.createdAt})
       IN SubSeq(sorted, 1, before) \o <<last>>
            \o SubSeq(sorted, before + 1, Len(sorted))

\* The first loop of getStreamInfo.
RECURSIVE StreamGroups(_, _)
StreamGroups(list, streamGroups) ==
  IF list = <<>> THEN streamGroups
  ELSE LET order == Head(list)
       IN StreamGroups(Tail(list),
            IF order.cancelledAt \/ order.reference = Null
              THEN streamGroups
              ELSE MapPush(streamGroups, order.reference, [orders |-> <<>>],
                           order))

getStreamInfo(list) ==
  LET streamGroups == StreamGroups(list, <<>>)
  IN [k \in DOMAIN streamGroups |->
        LET sortedOrders == SortByCreatedAt(streamGroups[k].value.orders)
        IN [key |-> streamGroups[k].key,
            value |-> [streamId |-> formatStreamId(sortedOrders[1].createdAt),
                       firstOrder |-> sortedOrders[1],
                       orders |-> sortedOrders]]]

\* A key that would tell the customers apart and not the sessions.
GroupKeyByCustomer(streamId, username) == <<0, username>>

\* `${streamId}:${order.customer.username}`
GroupKey(streamId, username) == <<streamId, username>>

\* The loop of groupOrders.
RECURSIVE GroupLoop(_, _, _)
GroupLoop(list, streamInfo, grouped) ==
  IF list = <<>> THEN grouped
  ELSE LET order == Head(list)
           known == \E k \in DOMAIN streamInfo :
                       streamInfo[k].key = order.reference
       IN GroupLoop(Tail(list), streamInfo,
            IF order.cancelledAt \/ order.reference = Null \/ ~known
              THEN grouped
              ELSE LET streamId == MapGet(streamInfo, order.reference).streamId
                   IN MapPush(grouped, GroupKey(streamId, order.username),
                              [streamId |-> streamId, orders |-> <<>>], order))

\* Array.from(groupedOrders.values())
groupOrders(list) ==
  LET grouped == GroupLoop(list, getStreamInfo(list), <<>>)
  IN [k \in DOMAIN grouped |-> grouped[k].value]

\* Mutant: an order key that differs from one submission to the next.
OrderKeyPerCall(streamId, username) == <<"wn", streamId, username, submission>>

\* `wn-${streamId}-${firstOrder.customer.username}_`
OrderKey(streamId, username) == <<"wn", streamId, username, "_">>

\* One line item per order of the group (every order of a batch carries the
\* single item "i1"), with sku the order id.
mapWhatnotToShipStation(orderGroup) ==
  LET firstOrder == orderGroup.orders[1]
  IN [orderKey |-> OrderKey(orderGroup.streamId, firstOrder.username),
      orderDate |-> firstOrder.createdAt,
      customerUsername |-> firstOrder.username,
      items |-> [k \in DOMAIN orderGroup.orders |->
                   [sku |-> orderGroup.orders[k].id,
                    lineItemKey |-> <<orderGroup.orders[k].id, "i1">>]],
      internalNotes |-> [k \in DOMAIN orderGroup.orders |->
                           orderGroup.orders[k].id],
      mergedOrSplit |-> Len(orderGroup.orders) > 1]

\* The platform creates the order, or replaces the one with the same key.
Upsert(held, mappedOrder) ==
  {o \in held : o.orderKey # mappedOrder.orderKey} \cup {mappedOrder}

ZeroBatchResults == [successful |-> <<>>, failed |-> <<>>]

\* The entry pushed for a group: whatnotIds and streamId.
GroupEntry(orderGroup) ==
  [whatnotIds |-> [k \in DOMAIN orderGroup.orders |-> orderGroup.orders[k].id],
   streamId |-> orderGroup.streamId]

\* Mutant: a group whose request failed is recorded nowhere.
RecordCreatedOnly(res, orderGroup, ok) ==
  IF ok THEN [res EXCEPT !.successful = Append(@, GroupEntry(orderGroup))]
        ELSE res

\* results.successful.push / results.failed.push in the try and the catch
\* of the loop body.
RecordGroup(res, orderGroup, ok) ==
  IF ok THEN [res EXCEPT !.successful = Append(@, GroupEntry(orderGroup))]
        ELSE [res EXCEPT !.failed = Append(@, GroupEntry(orderGroup))]

\* Mutant: the failures are left out of the report.
ProgressOfCreated(res, count) ==
  [created |-> Len(res.successful), total |-> count, failed |-> 0,
   groupedCount |-> count]

\* The argument of progressCallback: before the loop, and after each group
\* in the try and in the catch.
ProgressOf(res, count) ==
  [created |-> Len(res.successful), total |-> count,
   failed |-> Len(res.failed), groupedCount |-> count]

\* createOrders(whatnotOrders, ...) up to its loop: the first call for a
\* batch, or the call that submits the same batch once more.
SubmitBatch ==
  /\ \/ batchPc = "idle" /\ submission = "none"
     \/ batchPc = "done" /\ submission = "first"
  /\ submission' = IF submission = "none" THEN "first" ELSE "retry"
  /\ IF submission = "first"
       THEN /\ firstGrouped' = groupedOrders
            /\ firstPosted' = posted
            /\ firstFailed' = batchFailed
            /\ firstDestination' = destination
       ELSE UNCHANGED <<firstGrouped, firstPosted, firstFailed,
                        firstDestination>>
  /\ posted' = <<>>
  /\ batchFailed' = 0
  /\ batchResults' = ZeroBatchResults
  /\ IF whatnotOrders = <<>>
       THEN /\ batchPc' = "threw"
            /\ callbacks' = <<>>
            /\ UNCHANGED <<groupedOrders, batchIdx>>
       ELSE /\ groupedOrders' = groupOrders(whatnotOrders)
            /\ callbacks' = <<ProgressOf(ZeroBatchResults, Len(groupedOrders'))>>
            /\ batchIdx' = 1
            /\ batchPc' = IF groupedOrders' = <<>> THEN "done" ELSE "post"
  /\ UNCHANGED <<whatnotOrders, destination, batchFaults>>
  /\ UNCHANGED notBatch

\* The orders a later run of the order sync may fetch after the cursor: one
\* more order of customer u1 in stream s1.
LaterOrders ==
  { o \in GroupingOrders :
      ~o.cancelledAt /\ o.reference = "s1" /\ o.username = "u1" }

\* A later run of the order sync: getOrders resumes after the saved cursor
\* and returns an order the earlier run has not seen, and processAccount
\* calls createOrders with it.
SyncAgain ==
  /\ batchPc = "done"
  /\ submission = "first"
  /\ submission' = "later"
  /\ firstGrouped' = groupedOrders
  /\ firstPosted' = posted
  /\ firstFailed' = batchFailed
  /\ firstDestination' = destination
  /\ posted' = <<>>
  /\ batchFailed' = 0
  /\ batchResults' = ZeroBatchResults
  /\ \E o \in LaterOrders :
       whatnotOrders' =
         <<[id |-> Len(whatnotOrders) + 1, cancelledAt |-> o.cancelledAt,
            reference |-> o.reference, createdAt |-> o.createdAt,
            username |-> o.username]>>
  /\ groupedOrders' = groupOrders(whatnotOrders')
  /\ callbacks' = <<ProgressOf(ZeroBatchResults, Len(groupedOrders'))>>
  /\ batchIdx' = 1
  /\ batchPc' = "post"
  /\ UNCHANGED <<destination, batchFaults>>
  /\ UNCHANGED notBatch

\* One pass of the loop of createOrders: the group is mapped and posted; a
\* rejected request puts the group on results.failed.
PostGroup(ok) ==
  /\ batchPc = "post"
  /\ IF ok THEN UNCHANGED batchFaults
           ELSE batchFaults < MaxFaults /\ batchFaults' = batchFaults + 1
  /\ LET mappedOrder == mapWhatnotToShipStation(groupedOrders[batchIdx])
     IN /\ posted' = Append(posted, mappedOrder)
        /\ destination' = IF ok THEN Upsert(destination, mappedOrder)
                                ELSE destination
  /\ batchFailed' = IF ok THEN batchFailed ELSE batchFailed + 1
  /\ batchResults' = RecordGroup(batchResults, groupedOrders[batchIdx], ok)
  /\ callbacks' = Append(callbacks,
                         ProgressOf(batchResults', Len(groupedOrders)))
  /\ IF batchIdx < Len(groupedOrders)
       THEN batchIdx' = batchIdx + 1 /\ batchPc' = "post"
       ELSE batchIdx' = batchIdx /\ batchPc' = "done"
  /\ UNCHANGED <<whatnotOrders, groupedOrders, submission, firstGrouped,
                 firstPosted, firstFailed, firstDestination>>
  /\ UNCHANGED notBatch

BatchIdle ==
  /\ groupedOrders = <<>>
  /\ batchPc = "idle"
  /\ batchIdx = 0
  /\ posted = <<>>
  /\ batchFailed = 0
  /\ destination = {}
  /\ submission = "none"
  /\ firstGrouped = <<>>
  /\ firstPosted = <<>>
  /\ firstFailed = 0
  /\ firstDestination = {}
  /\ batchFaults = 0
  /\ batchResults = ZeroBatchResults
  /\ callbacks = <<>>

BatchQuiet ==
  /\ whatnotOrders = <<>>
  /\ BatchIdle

(***************************************************************************)
(* ORDER VALIDATION  (utils/validation.js)                                 *)
(*                                                                         *)
(* An order is the record of the fields that validateOrder reads; its id   *)
(* is its position in the list.  A reason is the text pushed on errors,     *)
(* with what it names.                                                     *)
(***************************************************************************)
\* The line items of an order: edge.node with its id, isPickup and whether
\* variant.sku is there.
Item(id, isPickup, hasSku) == [id |-> id, isPickup |-> isPickup, sku |-> hasSku]

ItemLists ==
  { <<>>,
    <<Item("i1", FALSE, TRUE)>>,
    <<Item("i1", FALSE, FALSE)>>,
    <<Item("i1", TRUE, FALSE)>>,
    <<Item("i1", TRUE, TRUE)>>,
    <<Item("i1", FALSE, FALSE), Item("i2", TRUE, FALSE)>>,
    <<Item("i1", FALSE, TRUE), Item("i2", FALSE, FALSE)>>,
    <<Item("i1", FALSE, FALSE), Item("i2", FALSE, FALSE)>> }

ValidationOrders ==
  [cancelledAt : BOOLEAN, trackingCode : BOOLEAN,
   status : {"PROCESSING", "COMPLETED"}, items : ItemLists]

ValidationLists ==
  { [k \in DOMAIN list |->
       [id |-> k, cancelledAt |-> list[k].cancelledAt,
        trackingCode |-> list[k].trackingCode, status |-> list[k].status,
        items |-> list[k].items]] :
    list \in SeqsUpTo(ValidationOrders, MaxBatch) }

\* Mutant: the loop over the items stops at the first item it reports.
RECURSIVE ItemErrorsFirstOnly(_)
ItemErrorsFirstOnly(itemEdges) ==
  IF itemEdges = <<>> THEN <<>>
  ELSE IF Head(itemEdges).isPickup
    THEN <<<<"Order contains pickup items", Null>>>>
  ELSE IF ~Head(itemEdges).sku
    THEN <<<<"Missing SKU for item", Head(itemEdges).id>>>>
  ELSE ItemErrorsFirstOnly(Tail(itemEdges))

\* "Check pickup flag and SKUs on all items": the loop of validateOrder.
RECURSIVE ItemErrors(_)
ItemErrors(itemEdges) ==
  IF itemEdges = <<>> THEN <<>>
  ELSE (IF Head(itemEdges).isPickup
          THEN <<<<"Order contains pickup items", Null>>>>
        ELSE IF ~Head(itemEdges).sku
          THEN <<<<"Missing SKU for item", Head(itemEdges).id>>>>
        ELSE <<>>)
       \o ItemErrors(Tail(itemEdges))

\* A validator that would report an order without items with one reason only.
validateOrderSingleReason(order) ==
  IF order.items = <<>>
    THEN <<<<"Order has no items", Null>>>>
    ELSE (IF order.cancelledAt THEN <<<<"Order is cancelled", Null>>>> ELSE <<>>)
         \o (IF order.trackingCode
               THEN <<<<"Order already has tracking code", Null>>>> ELSE <<>>)
         \o (IF order.status # "PROCESSING"
               THEN <<<<"Invalid order status", order.status>>>> ELSE <<>>)
         \o ItemErrors(order.items)

validateOrder(order) ==
  LET errors ==
        (IF order.cancelledAt THEN <<<<"Order is cancelled", Null>>>> ELSE <<>>)
        \o (IF order.trackingCode
              THEN <<<<"Order already has tracking code", Null>>>> ELSE <<>>)
        \o (IF order.status # "PROCESSING"
              THEN <<<<"Invalid order status", order.status>>>> ELSE <<>>)
  IN IF order.items = <<>>
       THEN Append(errors, <<"Order has no items", Null>>)
       ELSE errors \o ItemErrors(order.items)

\* Mutant: a cancelled order is skipped instead of being reported.
ClassifySkipCancelled(res, order, errors) ==
  IF order.cancelledAt THEN res
  ELSE IF errors = <<>>
    THEN [res EXCEPT !.valid = Append(@, order)]
  ELSE [res EXCEPT !.invalid = Append(@, [order |-> order, errors |-> errors])]

\* The branch of validateOrders on errors.length.
Classify(res, order, errors) ==
  IF errors = <<>>
    THEN [res EXCEPT !.valid = Append(@, order)]
    ELSE [res EXCEPT !.invalid = Append(@, [order |-> order, errors |-> errors])]

validateOrders ==
  /\ voPc = "idle"
  /\ validationResults' = [valid |-> <<>>, invalid |-> <<>>]
  /\ voIdx' = 1
  /\ voPc' = IF voOrders = <<>> THEN "done" ELSE "validateOrder"
  /\ UNCHANGED voOrders
  /\ UNCHANGED notValidate

\* One pass of the loop of validateOrders.
ValidateOne ==
  /\ voPc = "validateOrder"
  /\ validationResults' = Classify(validationResults, voOrders[voIdx],
                                   validateOrder(voOrders[voIdx]))
  /\ IF voIdx < Len(voOrders)
       THEN voIdx' = voIdx + 1 /\ voPc' = "validateOrder"
       ELSE voIdx' = voIdx /\ voPc' = "done"
  /\ UNCHANGED voOrders
  /\ UNCHANGED notValidate

ValidateIdle ==
  /\ voPc = "idle"
  /\ voIdx = 0
  /\ validationResults = [valid |-> <<>>, invalid |-> <<>>]

ValidateQuiet ==
  /\ voOrders = <<>>
  /\ ValidateIdle

(***************************************************************************)
(* THE ACCOUNT LOOP  (scripts/sync-orders.js, scripts/update-tracking.js)  *)
(*                                                                         *)
(* One run of syncOrders or of updateTracking over its accounts.  The two  *)
(* callers of the repository are modelled: the server hands over one       *)
(* enabled account and a progress callback, the command line hands over    *)
(* nothing and the run loads the enabled accounts of accounts.json.  What  *)
(* processAccount meets for an account (the step that throws, the number   *)
(* of orders fetched, the answer to each request) is drawn per account;    *)
(* the events it emits and the result it returns are computed from that   *)
(* as the code computes them.                                              *)
(***************************************************************************)
MaxFetched == 2

MaxRunShipments == 2

\* An entry of an errors array: { accountId | streamId | shipmentId, error }.
ErrorOf(key, name, index) == [key |-> key, name |-> name, index |-> index]

\* The steps of processAccount (order sync) that can throw.
SyncSteps == {"WhatnotService", "getOrders", "validateOrders",
              "ShipStationService", "createOrders"}

\* What the order sync of one account meets: fetched orders, of which
\* invalid are rejected; posts[k] tells whether the k-th consolidated group
\* is created.  The valid orders make at most as many groups as they are.
SyncMet ==
  { m \in [threw : SyncSteps \cup {"none"}, fetched : 0..MaxFetched,
           invalid : 0..MaxFetched, posts : SeqsUpTo(BOOLEAN, MaxFetched)] :
      /\ m.invalid <= m.fetched
      /\ Len(m.posts) <= m.fetched - m.invalid
      /\ m.threw \in {"WhatnotService", "getOrders"} => m.fetched = 0
      /\ m.threw = "validateOrders" => m.fetched > 0 /\ m.invalid = 0
      /\ m.threw \in {"ShipStationService", "createOrders"}
           => m.fetched > m.invalid
      /\ m.threw # "none" => m.posts = <<>> }

\* The steps of processAccount (tracking) that throw to its outer catch.
TrackingSteps == {"services", "loadTrackingState",
                  "getShippedOrdersWithTracking", "saveLastSyncTime"}

\* How the shipments of the filtered batch end: pushed, already tracked,
\* failed (a failed push or an exception caught in the loop), or skipped
\* for missing information.
ShipmentAnswers == {"updated", "alreadyTracked", "error", "missing"}

TrackingMet ==
  { m \in [threw : TrackingSteps \cup {"none"},
           answers : SeqsUpTo(ShipmentAnswers, MaxRunShipments)] :
      /\ m.threw \in {"services", "loadTrackingState",
                      "getShippedOrdersWithTracking"} => m.answers = <<>>
      /\ m.threw = "saveLastSyncTime" => m.answers # <<>> }

\* A progress object of the order sync: progress.total and accounts[0].
SyncProgress(name, phase, logOnly, processed, total, nCreated, invalid, errors) ==
  [phase |-> phase, logOnly |-> logOnly, hasTotal |-> TRUE,
   total |-> [processed |-> processed, total |-> total, created |-> nCreated,
              invalid |-> invalid, errors |-> errors],
   accounts |-> <<[name |-> name, processed |-> processed, total |-> total,
                   created |-> nCreated, invalid |-> invalid,
                   errors |-> errors]>>]

SyncResult(processed, nCreated, invalid, errors) ==
  [processed |-> processed, created |-> nCreated, invalid |-> invalid,
   errors |-> errors]

CreatedUpTo(posts, k) == Cardinality({j \in 1..k : posts[j]})

RECURSIVE FailedUpTo(_, _)
FailedUpTo(posts, k) ==
  IF k = 0 THEN <<>>
  ELSE FailedUpTo(posts, k - 1)
         \o (IF posts[k] THEN <<>> ELSE <<ErrorOf("streamId", Null, k)>>)

\* Mutant: the catch block returns no error.
SyncCaughtSilent(name) == SyncResult(0, 0, 0, <<>>)

\* The catch block of processAccount (order sync).
SyncCaught(name) == SyncResult(0, 0, 0, <<ErrorOf("accountId", name, 0)>>)

\* processAccount of the order sync: the events it hands to the callback
\* and the result it returns.  createOrders reports once before its loop
\* (reportedEv) and once after each group.  Math.floor(orders.length * (created /
\* groupedCount)) is exact for the sizes used here.
processAccountSync(account, met) ==
  LET name   == account.name
      n      == met.fetched
      inv    == met.invalid
      g      == Len(met.posts)
      fetchEv      == SyncProgress(name, "fetch", TRUE, 0, n, 0, 0, <<>>)
      validationEv == SyncProgress(name, "validation", TRUE, 0, n, 0, inv, <<>>)
      startEv      == SyncProgress(name, "creation_start", TRUE, 0, n, 0, inv, <<>>)
      reportedEv   == SyncProgress(name, "creation", FALSE, 0, n, 0, inv, <<>>)
      creationEvs  ==
        [k \in 1..g |->
           SyncProgress(name, "creation", FALSE,
                        (n * CreatedUpTo(met.posts, k)) \div g, n,
                        CreatedUpTo(met.posts, k), inv, FailedUpTo(met.posts, k))]
      completeEv   == SyncProgress(name, "complete", FALSE, n, n,
                                   CreatedUpTo(met.posts, g), inv,
                                   FailedUpTo(met.posts, g))
  IN IF ~account.enabled
       THEN [events |-> <<>>, result |-> SyncResult(0, 0, 0, <<>>)]
     ELSE IF met.threw \in {"WhatnotService", "getOrders"}
       THEN [events |-> <<>>, result |-> SyncCaught(name)]
     ELSE IF n = 0
       THEN [events |-> <<fetchEv>>, result |-> SyncResult(0, 0, 0, <<>>)]
     ELSE IF met.threw = "validateOrders"
       THEN [events |-> <<fetchEv>>, result |-> SyncCaught(name)]
     ELSE IF inv = n
       THEN [events |-> <<fetchEv, validationEv>>,
             result |-> SyncResult(n, 0, inv, <<>>)]
     ELSE IF met.threw = "ShipStationService"
       THEN [events |-> <<fetchEv, validationEv>>, result |-> SyncCaught(name)]
     ELSE IF met.threw = "createOrders"
       THEN [events |-> <<fetchEv, validationEv, startEv>>,
             result |-> SyncCaught(name)]
     ELSE [events |-> <<fetchEv, validationEv, startEv, reportedEv>>
                        \o creationEvs \o <<completeEv>>,
           result |-> SyncResult(n, CreatedUpTo(met.posts, g), inv,
                                 FailedUpTo(met.posts, g))]

\* A progress object of the tracking update.
TrackingProgress(name, phase, logOnly, processed, total, updated, already, errors) ==
  [phase |-> phase, logOnly |-> logOnly, hasTotal |-> TRUE,
   total |-> [processed |-> processed, total |-> total, updated |-> updated,
              alreadyTracked |-> already, errors |-> errors],
   accounts |-> <<[name |-> name, processed |-> processed, total |-> total,
                   updated |-> updated, alreadyTracked |-> already,
                   errors |-> errors]>>]

\* { logOnly: true, logMessage, logType: 'error' }: an event without totals.
ErrorLogEvent ==
  [phase |-> Null, logOnly |-> TRUE, hasTotal |-> FALSE,
   total |-> [processed |-> 0, total |-> Absent, updated |-> 0,
              alreadyTracked |-> Absent, errors |-> <<>>],
   accounts |-> <<>>]

TrackingResult(processed, updated, already, errors) ==
  [processed |-> processed, updated |-> updated, alreadyTracked |-> already,
   errors |-> errors]

CountOf(answers, k, answer) == Cardinality({j \in 1..k : answers[j] = answer})

RECURSIVE ErrorsUpTo(_, _)
ErrorsUpTo(answers, k) ==
  IF k = 0 THEN <<>>
  ELSE ErrorsUpTo(answers, k - 1)
         \o (IF answers[k] \in {"error", "missing"}
               THEN <<ErrorOf("shipmentId", Null, k)>> ELSE <<>>)

\* results of processAccount (tracking) after k shipments of its loop.
ResultsUpTo(answers, k) ==
  TrackingResult(k, CountOf(answers, k, "updated"),
                 CountOf(answers, k, "alreadyTracked"), ErrorsUpTo(answers, k))

\* The events of the k-th pass of the shipment loop.
ShipmentEvents(name, answers, k) ==
  LET res == ResultsUpTo(answers, k)
  IN (IF answers[k] = "error" THEN <<ErrorLogEvent>> ELSE <<>>)
       \o <<TrackingProgress(name, "update", FALSE, k, Len(answers),
                             res.updated, res.alreadyTracked, res.errors)>>

RECURSIVE LoopEvents(_, _, _)
LoopEvents(name, answers, k) ==
  IF k = 0 THEN <<>>
  ELSE LoopEvents(name, answers, k - 1) \o ShipmentEvents(name, answers, k)

\* The event of the catch block of processAccount (tracking).
TrackingErrorEvent(name) ==
  [TrackingProgress(name, "error", FALSE, 0, 0, 0, Absent,
                    <<ErrorOf("error", Null, 0)>>)
     EXCEPT !.total.errors = <<ErrorOf("accountId", name, 0)>>]

TrackingCaught(name) ==
  TrackingResult(0, 0, Absent, <<ErrorOf("accountId", name, 0)>>)

\* processAccount of the tracking update: events and result.
processAccountTracking(account, met) ==
  LET name == account.name
      m    == Len(met.answers)
      res  == ResultsUpTo(met.answers, m)
      fetchEv    == TrackingProgress(name, "fetch", TRUE, 0, 0, 0, Absent, <<>>)
      fetchedEv  == TrackingProgress(name, "fetch_complete", FALSE, 0, m, 0,
                                     Absent, <<>>)
      upToDateEv == TrackingProgress(name, "complete", FALSE, 1, 1, 0, 0, <<>>)
      completeEv == TrackingProgress(name, "complete", FALSE, m, m, res.updated,
                                     res.alreadyTracked, res.errors)
      errorEv    == TrackingErrorEvent(name)
  IN IF ~account.enabled
       THEN [events |-> <<>>, result |-> TrackingResult(0, 0, Absent, <<>>)]
     ELSE IF met.threw \in {"services", "loadTrackingState"}
       THEN [events |-> <<errorEv>>, result |-> TrackingCaught(name)]
     ELSE IF met.threw = "getShippedOrdersWithTracking"
       THEN [events |-> <<fetchEv, errorEv>>, result |-> TrackingCaught(name)]
     ELSE IF m = 0
       THEN [events |-> <<fetchEv, fetchedEv, upToDateEv>>,
             result |-> TrackingResult(0, 0, Absent, <<>>)]
     ELSE IF met.threw = "saveLastSyncTime"
       THEN [events |-> <<fetchEv, fetchedEv>> \o LoopEvents(name, met.answers, m)
                          \o <<errorEv>>,
             result |-> TrackingCaught(name)]
     ELSE [events |-> <<fetchEv, fetchedEv>> \o LoopEvents(name, met.answers, m)
                        \o <<completeEv>>,
           result |-> res]

\* results at the start of syncOrders and of updateTracking; neither has a
\* field total.total.
ZeroSyncRun ==
  [total |-> [processed |-> 0, total |-> Absent, created |-> 0, invalid |-> 0,
              errors |-> <<>>],
   accounts |-> <<>>]

ZeroTrackingRun ==
  [total |-> [processed |-> 0, total |-> Absent, updated |-> 0, errors |-> <<>>],
   accounts |-> <<>>]

NoEmitted == [phase |-> "none", logOnly |-> TRUE, hasTotal |-> FALSE]

\* "Add to totals" and "Save account result" of syncOrders.
AddSyncResult(res, name, accountResult) ==
  [total |-> [res.total EXCEPT
                !.processed = @ + accountResult.processed,
                !.created = @ + accountResult.created,
                !.invalid = @ + accountResult.invalid,
                !.errors = @ \o accountResult.errors],
   accounts |-> Append(res.accounts,
                       [name |-> name, processed |-> accountResult.processed,
                        created |-> accountResult.created,
                        invalid |-> accountResult.invalid,
                        errors |-> accountResult.errors])]

\* The event syncOrders emits after each account.
AccountCompleteEvent(res) ==
  [phase |-> "complete", logOnly |-> FALSE, hasTotal |-> TRUE,
   total |-> res.total, accounts |-> res.accounts]

\* The same without a callback in updateTracking.
AddTrackingResult(res, name, accountResult) ==
  [total |-> [res.total EXCEPT
                !.processed = @ + accountResult.processed,
                !.updated = @ + accountResult.updated,
                !.errors = @ \o accountResult.errors],
   accounts |-> Append(res.accounts,
                       [name |-> name, processed |-> accountResult.processed,
                        total |-> Absent, updated |-> accountResult.updated,
                        alreadyTracked |-> accountResult.alreadyTracked,
                        errors |-> accountResult.errors])]

\* wrappedCallback of updateTracking for the account name: an event with
\* totals that is not log-only is added to results.total, and the account's
\* entry is updated from accounts[0] or pushed.
wrappedCallbackFor(res, name, progress) ==
  IF progress.hasTotal /\ ~progress.logOnly
    THEN LET entry == progress.accounts[1]
             found == {k \in DOMAIN res.accounts : res.accounts[k].name = name}
             first == CHOOSE k \in found : \A j \in found : k <= j
         IN [total |-> [res.total EXCEPT
                          !.processed = @ + progress.total.processed,
                          !.updated = @ + progress.total.updated,
                          !.errors = @ \o progress.total.errors],
             accounts |->
               IF found = {} THEN Append(res.accounts, entry)
               ELSE [res.accounts EXCEPT
                       ![first] = [@ EXCEPT !.processed = entry.processed,
                                            !.total = entry.total,
                                            !.updated = entry.updated,
                                            !.errors = entry.errors]]]
    ELSE res

RECURSIVE FoldEvents(_, _, _)
FoldEvents(res, name, events) ==
  IF events = <<>> THEN res
  ELSE FoldEvents(wrappedCallbackFor(res, name, Head(events)), name, Tail(events))

\* What wrappedCallback passes on: the event with the run's totals and
\* accounts in place of its own.
Forwarded(res, progress) ==
  [phase |-> progress.phase, logOnly |-> progress.logOnly, hasTotal |-> TRUE,
   total |-> res.total, accounts |-> res.accounts]

\* Mutant: the last report of updateTracking is an intermediate one.
FinalReportIntermediate(res) ==
  [phase |-> "account_complete", logOnly |-> FALSE, hasTotal |-> TRUE,
   total |-> res.total, accounts |-> res.accounts]

\* "Final progress report" of updateTracking, res being the results after
\* the adjustment of finalTotal.
FinalReport(res) ==
  [phase |-> "complete", logOnly |-> FALSE, hasTotal |-> TRUE,
   total |-> res.total, accounts |-> res.accounts]

\* finalTotal of updateTracking: a run that processed nothing shows 1 of 1.
AdjustFinalTotal(res) ==
  IF res.total.processed = 0 /\ res.total.updated = 0 /\ res.total.errors = <<>>
    THEN [res EXCEPT !.total.processed = 1, !.total.total = 1]
    ELSE res

\* The files of the three state directories, by directory and by the
\* identifier that makes the file name: cursors/${accountId}.json,
\* sync_times/shipstation_${storeId}.json and
\* tracking_state/shipstation_${storeId}.json.
CursorFile(accountId) == <<"cursors", accountId>>

\* Mutant: one sync time file for all the stores.
SyncFileShared(storeId) == <<"sync_times", "shipstation">>

SyncFile(storeId) == <<"sync_times", storeId>>

StateFile(storeId) == <<"tracking_state", storeId>>

\* A request, which touches no file.
NoPath == <<"", "">>

\* One external call or file access made while the account is processed.
Step(account, op, file) == [account |-> account.name, op |-> op, file |-> file]

\* The calls that write a file.
WriteOps == {"saveCursor", "saveSyncTime", "saveTrackingState"}

\* The requests to the marketplace and to the shipping platform.
RequestOps == {"getOrdersPage", "createOrders", "getShipmentsPage",
               "updateOrdersTracking"}

Repeat(seq, n) == [k \in 1..(n * Len(seq)) |-> seq[((k - 1) % Len(seq)) + 1]]

\* Mutant: the constructor of WhatnotService asks for no start date.
MissingStartDateIgnored(startAt, envDate) == FALSE

\* The constructor of WhatnotService throws when neither startAt nor
\* WHATNOT_INITIAL_SYNC_DATE is given.
MissingStartDate(startAt, envDate) == ~startAt /\ ~envDate

\* getOrders: the cursor is loaded, then each page is requested and, when it
\* holds orders, followed by saveCursor; a request that fails or returns no
\* orders ends the loop.  The pages hold one order each here.
getOrdersSteps(account, met) ==
  <<Step(account, "loadCursor", CursorFile(account.name))>>
    \o Repeat(<<Step(account, "getOrdersPage", NoPath),
                Step(account, "saveCursor", CursorFile(account.name))>>,
              met.fetched)
    \o (IF met.threw = "getOrders" \/ met.fetched = 0
          THEN <<Step(account, "getOrdersPage", NoPath)>> ELSE <<>>)

\* Mutant: the orders of the first page are created before the next pages
\* are fetched.
syncStepsPaged(account, met) ==
  IF ~account.enabled \/ met.threw = "WhatnotService" THEN <<>>
  ELSE IF met.fetched > 1 /\ met.posts # <<>>
    THEN <<Step(account, "loadCursor", CursorFile(account.name)),
           Step(account, "getOrdersPage", NoPath),
           Step(account, "saveCursor", CursorFile(account.name)),
           Step(account, "createOrders", NoPath)>>
           \o Repeat(<<Step(account, "getOrdersPage", NoPath),
                       Step(account, "saveCursor", CursorFile(account.name))>>,
                     met.fetched - 1)
           \o Repeat(<<Step(account, "createOrders", NoPath)>>,
                     Len(met.posts) - 1)
  ELSE getOrdersSteps(account, met)
         \o Repeat(<<Step(account, "createOrders", NoPath)>>, Len(met.posts))

\* The external calls and file accesses of processAccount (order sync), in
\* their order: getOrders, then one creation request for each group.
syncSteps(account, met) ==
  IF ~account.enabled \/ met.threw = "WhatnotService" THEN <<>>
  ELSE getOrdersSteps(account, met)
         \o Repeat(<<Step(account, "createOrders", NoPath)>>, Len(met.posts))

\* The k-th pass of the shipment loop: a shipment with missing information
\* is skipped, any other one is pushed and checkpointed (the pass whose push
\* fails, for the answer "error").
shipmentSteps(account, answer) ==
  IF answer = "missing" THEN <<>>
  ELSE <<Step(account, "updateOrdersTracking", NoPath),
         Step(account, "saveTrackingState", StateFile(account.shipstationStoreId))>>

RECURSIVE loopSteps(_, _, _)
loopSteps(account, answers, k) ==
  IF k = 0 THEN <<>>
  ELSE loopSteps(account, answers, k - 1) \o shipmentSteps(account, answers[k])

\* The external calls and file accesses of processAccount (tracking), in
\* their order: the sync time and the tracking state are read, the pages of
\* shipments are fetched (one page for each shipment of the batch here, and
\* at least one), the shipments are pushed one by one, and after a non-empty
\* batch the sync time is saved and the tracking state reset.
trackingSteps(account, met) ==
  LET storeId == account.shipstationStoreId
      loaded  == <<Step(account, "loadSyncTime", SyncFile(storeId)),
                   Step(account, "loadTrackingState", StateFile(storeId))>>
      pageCount == IF met.answers = <<>> THEN 1 ELSE Len(met.answers)
      fetched == Repeat(<<Step(account, "getShipmentsPage", NoPath)>>, pageCount)
      saved   == <<Step(account, "saveSyncTime", SyncFile(storeId))>>
      reset   == <<Step(account, "saveTrackingState", StateFile(storeId))>>
  IN IF ~account.enabled \/ met.threw = "services" THEN <<>>
     ELSE IF met.threw = "loadTrackingState" THEN loaded
     ELSE IF met.threw = "getShippedOrdersWithTracking" \/ met.answers = <<>>
       THEN loaded \o fetched
     ELSE loaded \o fetched \o loopSteps(account, met.answers, Len(met.answers))
            \o saved
            \o (IF met.threw = "saveLastSyncTime" THEN <<>> ELSE reset)

\* The files a sequence of calls writes.
Written(calls) == {calls[k].file : k \in {j \in DOMAIN calls : calls[j].op \in WriteOps}}

RunIdle ==
  /\ runPc = "idle"
  /\ runAccounts = <<>>
  /\ runIdx = 0
  /\ runResults = ZeroSyncRun
  /\ emitted = 0
  /\ lastEmitted = NoEmitted
  /\ fetchedByRun = 0
  /\ handled = <<>>
  /\ steps = <<>>

\* The argument accountsToProcess: null, or a list of accounts.
NoList == [isNull |-> TRUE, list |-> <<>>]

ListOf(list) == [isNull |-> FALSE, list |-> list]

\* The callers: the server with one enabled account and its callback
\* (runSyncOrders, runTrackingUpdate and the multi-account functions), the
\* command line with no argument.
RunCalls(file) ==
  {[accountsToProcess |-> NoList, progressCallback |-> FALSE]}
    \cup {[accountsToProcess |-> ListOf(<<acc>>), progressCallback |-> TRUE] :
            acc \in {a \in Range(file) : a.enabled}}

\* syncOrders / updateTracking up to the account loop: the accounts are the
\* ones handed over, or the enabled ones of accounts.json; loadAccounts may
\* throw, and the run rethrows (updateTracking reports a fatal error first).
RunStart(ok) ==
  /\ runPc = "idle"
  /\ \/ ok
     \/ accountsToProcess.isNull
  /\ IF ok
       THEN /\ runAccounts' = IF accountsToProcess.isNull
                                THEN SelectSeq(runAccountsFile, IsEnabled)
                                ELSE accountsToProcess.list
            /\ runPc' = "loop"
            /\ runResults' = IF runPipeline = "sync" THEN ZeroSyncRun
                                                     ELSE ZeroTrackingRun
            /\ UNCHANGED <<emitted, lastEmitted>>
       ELSE /\ runPc' = "threw"
            /\ IF runPipeline = "tracking" /\ progressCallback
                 THEN /\ emitted' = emitted + 1
                      /\ lastEmitted' =
                           [phase |-> "error", logOnly |-> FALSE, hasTotal |-> TRUE,
                            total |-> [processed |-> 0, updated |-> 0,
                                       errors |-> <<ErrorOf("error", Null, 0)>>],
                            accounts |-> <<>>]
                 ELSE UNCHANGED <<emitted, lastEmitted>>
            /\ UNCHANGED <<runAccounts, runResults>>
  /\ UNCHANGED <<runPipeline, runAccountsFile, accountsToProcess,
                 progressCallback, runIdx, fetchedByRun, handled,
                 initialSyncDate, files, steps>>
  /\ UNCHANGED notRun

\* One pass of the account loop of syncOrders.
RunSyncAccount(met) ==
  /\ runPipeline = "sync"
  /\ runPc = "loop"
  /\ runIdx < Len(runAccounts)
  /\ LET account == runAccounts[runIdx + 1]
     IN /\ (account.enabled /\ MissingStartDate(FALSE, initialSyncDate))
             => met.threw = "WhatnotService"
        /\ steps' = steps \o syncSteps(account, met)
        /\ files' = files \cup Written(syncSteps(account, met))
  /\ LET account == runAccounts[runIdx + 1]
         pa      == processAccountSync(account, met)
         res     == AddSyncResult(runResults, account.name, pa.result)
         events  == IF progressCallback
                      THEN pa.events \o <<AccountCompleteEvent(res)>>
                      ELSE <<>>
     IN /\ runResults' = res
        /\ emitted' = emitted + Len(events)
        /\ lastEmitted' = IF events = <<>> THEN lastEmitted
                          ELSE events[Len(events)]
        /\ handled' = Append(handled, [name |-> account.name,
                                       threw |-> met.threw,
                                       processed |-> pa.result.processed])
  /\ fetchedByRun' = fetchedByRun + met.fetched
  /\ runIdx' = runIdx + 1
  /\ UNCHANGED <<runPipeline, runAccountsFile, accountsToProcess,
                 progressCallback, runPc, runAccounts, initialSyncDate>>
  /\ UNCHANGED notRun

\* One pass of the account loop of updateTracking.
RunTrackingAccount(met) ==
  /\ runPipeline = "tracking"
  /\ runPc = "loop"
  /\ runIdx < Len(runAccounts)
  /\ LET account == runAccounts[runIdx + 1]
     IN /\ (account.enabled /\ MissingStartDate(FALSE, initialSyncDate))
             => met.threw = "services"
        /\ steps' = steps \o trackingSteps(account, met)
        /\ files' = files \cup Written(trackingSteps(account, met))
  /\ LET account == runAccounts[runIdx + 1]
         pa      == processAccountTracking(account, met)
         res     == IF progressCallback
                      THEN FoldEvents(runResults, account.name, pa.events)
                      ELSE AddTrackingResult(runResults, account.name, pa.result)
     IN /\ runResults' = res
        /\ IF progressCallback /\ pa.events # <<>>
             THEN /\ emitted' = emitted + Len(pa.events)
                  /\ lastEmitted' = Forwarded(res, pa.events[Len(pa.events)])
             ELSE UNCHANGED <<emitted, lastEmitted>>
        /\ handled' = Append(handled, [name |-> account.name,
                                       threw |-> met.threw,
                                       processed |-> pa.result.processed])
  /\ runIdx' = runIdx + 1
  /\ UNCHANGED <<runPipeline, runAccountsFile, accountsToProcess,
                 progressCallback, runPc, runAccounts, fetchedByRun,
                 initialSyncDate>>
  /\ UNCHANGED notRun

\* The code after the account loop: the summary, the final progress report
\* of updateTracking, and the return of results.
RunFinish ==
  /\ runPc = "loop"
  /\ runIdx = Len(runAccounts)
  /\ runPc' = "done"
  /\ IF runPipeline = "tracking" /\ progressCallback
       THEN /\ runResults' = AdjustFinalTotal(runResults)
            /\ emitted' = emitted + 1
            /\ lastEmitted' = FinalReport(AdjustFinalTotal(runResults))
       ELSE UNCHANGED <<runResults, emitted, lastEmitted>>
  /\ UNCHANGED <<runPipeline, runAccountsFile, accountsToProcess,
                 progressCallback, runAccounts, runIdx, fetchedByRun, handled,
                 initialSyncDate, files, steps>>
  /\ UNCHANGED notRun

RunQuiet ==
  /\ runPipeline = "sync"
  /\ runAccountsFile = <<>>
  /\ accountsToProcess = NoList
  /\ progressCallback = FALSE
  /\ initialSyncDate = FALSE
  /\ files = {}
  /\ RunIdle

(***************************************************************************)
(* Specifications.                                                         *)
(***************************************************************************)
ClientQuiet ==
  /\ api = [script |-> <<>>, rest |-> [status |-> 200, retryAfter |-> NoHeader]]
  /\ ClientIdle

ServerQuiet ==
  /\ env = [SYNC_ALL_ACCOUNTS |-> FALSE, SCHEDULED_ACCOUNT |-> Null]
  /\ accountsFile = <<>>
  /\ ServerIdle

(***************************************************************************)
(* SHIPMENT LISTING  (services/shipstation.js)                             *)
(*                                                                         *)
(* getShippedOrdersWithTracking pages through GET /shipments.  The         *)
(* platform holds the shipments of the store page by page and declares a   *)
(* page count in every response; a page past its last one comes back       *)
(* without shipments.  A shipment is the record of the fields the listing  *)
(* reads: voided, whether it has a tracking number, and the sku of each of *)
(* its line items.                                                         *)
(***************************************************************************)
MaxListPages == 2

\* A line item without sku (undefined, null or the empty string).
NoSku == 0

Shipment(voided, trackingNumber, skus) ==
  [voided |-> voided, trackingNumber |-> trackingNumber, skus |-> skus]

\* The pages the platform's data is drawn from.
PageShapes ==
  { <<>>,
    <<Shipment(FALSE, TRUE, <<7>>)>>,
    <<Shipment(TRUE, TRUE, <<7>>)>>,
    <<Shipment(FALSE, TRUE, <<>>)>>,
    <<Shipment(FALSE, FALSE, <<7>>), Shipment(FALSE, TRUE, <<NoSku, 7>>)>>,
    <<Shipment(FALSE, TRUE, <<NoSku>>), Shipment(FALSE, TRUE, <<7, 8>>)>> }

\* The shipment at position k of page p has shipmentId 10 p + k.
WithShipmentIds(list) ==
  [p \in DOMAIN list |->
     [k \in DOMAIN list[p] |->
        [shipmentId |-> 10 * p + k, voided |-> list[p][k].voided,
         trackingNumber |-> list[p][k].trackingNumber,
         skus |-> list[p][k].skus]]]

\* response.data of GET /shipments?page=p
ShipmentsResponse(p) ==
  [shipments |-> IF p \in DOMAIN shipmentPages THEN shipmentPages[p] ELSE <<>>,
   pages |-> pages]

\* shipment.shipmentItems?.map(item => item.sku).filter(Boolean)
whatnotOrderIdsOf(shipment) == SelectSeq(shipment.skus, LAMBDA sku : sku # NoSku)

\* A listing that would drop the shipments without tracking number only.
RECURSIVE ProcessShipmentsKeepVoided(_, _)
ProcessShipmentsKeepVoided(list, res) ==
  IF list = <<>> THEN res
  ELSE LET shipment == Head(list)
           ids == whatnotOrderIdsOf(shipment)
       IN ProcessShipmentsKeepVoided(Tail(list),
            IF ~shipment.trackingNumber THEN res
            ELSE IF Len(ids) > 0
              THEN Append(res, [shipmentId |-> shipment.shipmentId,
                                whatnotOrderIds |-> ids])
            ELSE res)

\* "Process each shipment": the for loop over the shipments of a page.
RECURSIVE ProcessShipments(_, _)
ProcessShipments(list, res) ==
  IF list = <<>> THEN res
  ELSE LET shipment == Head(list)
           ids == whatnotOrderIdsOf(shipment)
       IN ProcessShipments(Tail(list),
            IF shipment.voided \/ ~shipment.trackingNumber THEN res
            ELSE IF Len(ids) > 0
              THEN Append(res, [shipmentId |-> shipment.shipmentId,
                                whatnotOrderIds |-> ids])
            ELSE res)

\* getShippedOrdersWithTracking(storeId, ...) up to its loop.
ListShipments ==
  /\ listPc = "idle"
  /\ listResults' = <<>>
  /\ page' = 1
  /\ hasMorePages' = TRUE
  /\ listPc' = "request"
  /\ UNCHANGED <<shipmentPages, pages, requestedPages>>
  /\ UNCHANGED notList

\* One pass of the while loop: the request for the page, the loop over its
\* shipments and the loop test; a request that fails is rethrown.
GetShipmentsPage(ok) ==
  /\ listPc = "request"
  /\ hasMorePages
  /\ requestedPages' = Append(requestedPages, page)
  /\ UNCHANGED <<shipmentPages, pages>>
  /\ UNCHANGED notList
  /\ IF ~ok
       THEN /\ listPc' = "threw"
            /\ UNCHANGED <<page, hasMorePages, listResults>>
       ELSE LET data == ShipmentsResponse(page)
            IN IF Len(data.shipments) = 0
                 THEN /\ listPc' = "done"
                      /\ UNCHANGED <<page, hasMorePages, listResults>>
                 ELSE /\ listResults' = ProcessShipments(data.shipments,
                                                         listResults)
                      /\ hasMorePages' = (page < data.pages)
                      /\ page' = page + 1
                      /\ listPc' = IF hasMorePages' THEN "request" ELSE "done"

ListIdle ==
  /\ listPc = "idle"
  /\ page = 0
  /\ hasMorePages = FALSE
  /\ listResults = <<>>
  /\ requestedPages = <<>>

ListQuiet ==
  /\ shipmentPages = <<>>
  /\ pages = 0
  /\ ListIdle

(***************************************************************************)
(* CARRIER MAPPING  (scripts/update-tracking.js)                           *)
(*                                                                         *)
(* A carrier code is the sequence of its characters; the empty sequence    *)
(* stands for a code that is absent (undefined, null or '').               *)
(***************************************************************************)
MaxCode == 4

NoCarrier == <<>>

NoCourier == "none"

\* String.prototype.toLowerCase on one character.
LowerChar(ch) ==
  CASE ch = "U" -> "u" [] ch = "P" -> "p" [] ch = "S" -> "s"
    [] ch = "F" -> "f" [] ch = "E" -> "e" [] ch = "D" -> "d"
    [] ch = "X" -> "x" [] OTHER -> ch

toLowerCase(str) == [k \in DOMAIN str |-> LowerChar(str[k])]

\* String.prototype.includes
includes(str, sub) ==
  \E k \in 0..(Len(str) - Len(sub)) : SubSeq(str, k + 1, k + Len(sub)) = sub

\* The codes the mapping is applied to: every code of up to MaxCode
\* characters over u, s, p, U, and some codes the platform uses.
CarrierCodes ==
  SeqsUpTo({"u", "s", "p", "U"}, MaxCode)
    \cup { <<"s", "t", "a", "m", "p", "s", "_", "c", "o", "m">>,
           <<"u", "p", "s", "_", "w", "a", "l", "l", "e", "t", "e", "d">>,
           <<"f", "e", "d", "e", "x">>,
           <<"F", "e", "d", "E", "x">>,
           <<"d", "h", "l">> }

mapCarrierToWhatnotCourier(code) ==
  IF code = NoCarrier THEN "usps"
  ELSE LET carrierLower == toLowerCase(code)
       IN IF includes(carrierLower, <<"u", "p", "s">>) THEN "ups"
          ELSE IF \/ includes(carrierLower, <<"s", "t", "a", "m", "p", "s">>)
                  \/ includes(carrierLower, <<"u", "s", "p", "s">>)
            THEN "usps"
          ELSE IF includes(carrierLower, <<"f", "e", "d", "e", "x">>)
            THEN "fedex"
          ELSE "usps"

\* const courier = mapCarrierToWhatnotCourier(carrierCode)
MapCarrier ==
  /\ courier = NoCourier
  /\ courier' = mapCarrierToWhatnotCourier(carrierCode)
  /\ UNCHANGED carrierCode
  /\ UNCHANGED notCarrier

CarrierQuiet ==
  /\ carrierCode = NoCarrier
  /\ courier = NoCourier

ClientInit ==
  /\ api \in [script : SeqsUpTo(Answers, MaxScript), rest : Answers]
  /\ ClientIdle
  /\ ServerQuiet
  /\ TrackingQuiet
  /\ OrdersQuiet
  /\ BatchQuiet
  /\ ValidateQuiet
  /\ RunQuiet
  /\ ListQuiet
  /\ CarrierQuiet
  /\ RetryQuiet

ClientNext ==
  \/ \E n \in 1..MaxGroups : createOrders(n)
  \/ executeRequest

ServerInit ==
  /\ env \in Environments
  /\ accountsFile \in AccountsFiles
  /\ ServerIdle
  /\ ClientQuiet
  /\ TrackingQuiet
  /\ OrdersQuiet
  /\ BatchQuiet
  /\ ValidateQuiet
  /\ RunQuiet
  /\ ListQuiet
  /\ CarrierQuiet
  /\ RetryQuiet

TrackingInit ==
  /\ TrackingQuiet
  /\ ClientQuiet
  /\ ServerQuiet
  /\ OrdersQuiet
  /\ BatchQuiet
  /\ ValidateQuiet
  /\ RunQuiet
  /\ ListQuiet
  /\ CarrierQuiet
  /\ RetryQuiet

TrackingNext ==
  \/ \E callback \in BOOLEAN : updateTracking(callback)
  \/ getLastSyncTime
  \/ LoadTrackingState
  \/ \E ok \in BOOLEAN : Fetch(ok)
  \/ \E answer \in PushAnswers : PushOrder(answer)
  \/ \E ok \in BOOLEAN : SaveTrackingState(ok)
  \/ \E ok \in BOOLEAN : SaveLastSyncTime(ok)
  \/ \E ok \in BOOLEAN : ResetTrackingState(ok)
  \/ CrashTracking
  \/ Ship
  \/ TrackTick

ServerNext ==
  \/ \E accountId \in RequestAccountIds : PostSync(accountId)
  \/ \E accountId \in RequestAccountIds : PostTracking(accountId)
  \/ \E jobType \in JobTypes : PostRunScheduled(jobType)
  \/ \E jobType \in {"sync", "tracking"} : CronJob(jobType)
  \/ \E k \in DOMAIN runs : GetAccounts(k)
  \/ \E k \in DOMAIN runs : \E ev \in AllEvents : Progress(k, ev)
  \/ \E k \in DOMAIN runs : \E result \in AllResults : PipelineResolve(k, result)
  \/ \E k \in DOMAIN runs : PipelineReject(k)
  \/ Tick

\* The fulfillment client against a scripted API.
SpecClient == ClientInit /\ [][ClientNext]_vars

\* The server: start requests from the endpoints and the cron jobs
\* interleaved with the steps of the accepted runs.
SpecServer == ServerInit /\ [][ServerNext]_vars

\* The steps by which an accepted run goes on: its awaited calls return.
RunSteps ==
  \E k \in DOMAIN runs :
    \/ GetAccounts(k)
    \/ \E result \in AllResults : PipelineResolve(k, result)
    \/ PipelineReject(k)

\* The server without the passing of time, which only the timestamps of
\* the log read.
ReleaseNext ==
  \/ \E accountId \in RequestAccountIds : PostSync(accountId)
  \/ \E accountId \in RequestAccountIds : PostTracking(accountId)
  \/ \E jobType \in JobTypes : PostRunScheduled(jobType)
  \/ \E jobType \in {"sync", "tracking"} : CronJob(jobType)
  \/ \E k \in DOMAIN runs : GetAccounts(k)
  \/ \E k \in DOMAIN runs : \E ev \in AllEvents : Progress(k, ev)
  \/ \E k \in DOMAIN runs : \E result \in AllResults : PipelineResolve(k, result)
  \/ \E k \in DOMAIN runs : PipelineReject(k)

\* The server when every awaited call of an accepted run returns at last.
SpecServerFair == ServerInit /\ [][ReleaseNext]_vars /\ WF_vars(RunSteps)

\* The tracking update of one account against a platform that ships, with
\* failing requests and writes and with process crashes.
SpecTracking == TrackingInit /\ [][TrackingNext]_vars

ClassifyNext ==
  \/ \E callback \in BOOLEAN : updateTracking(callback)
  \/ getLastSyncTime
  \/ LoadTrackingState
  \/ Fetch(TRUE)
  \/ \E answer \in ClassifyAnswers : PushOrder(answer)
  \/ SaveTrackingState(TRUE)
  \/ SaveLastSyncTime(TRUE)
  \/ ResetTrackingState(TRUE)
  \/ Ship

\* The tracking update of one account against a marketplace that refuses
\* pushes for orders that are tracked already; the platform and the files
\* answer every request.
SpecClassify == TrackingInit /\ [][ClassifyNext]_vars

OrdersInit ==
  /\ OrdersQuiet
  /\ ClientQuiet
  /\ ServerQuiet
  /\ TrackingQuiet
  /\ BatchQuiet
  /\ ValidateQuiet
  /\ RunQuiet
  /\ ListQuiet
  /\ CarrierQuiet
  /\ RetryQuiet

OrdersNext ==
  \/ syncOrders
  \/ LoadCursor
  \/ \E ok \in BOOLEAN : FetchPage(ok)
  \/ \E ok \in BOOLEAN : SaveCursor(ok)
  \/ ValidateOrders
  \/ \E ok \in BOOLEAN : CreateOrder(ok)
  \/ CrashSync
  \/ NewOrder

\* The order sync of one account against a growing feed, with failing
\* requests and writes and with process crashes.
SpecOrders == OrdersInit /\ [][OrdersNext]_vars

BatchInit ==
  /\ whatnotOrders \in Batches
  /\ BatchIdle
  /\ ClientQuiet
  /\ ServerQuiet
  /\ TrackingQuiet
  /\ OrdersQuiet
  /\ ValidateQuiet
  /\ RunQuiet
  /\ ListQuiet
  /\ CarrierQuiet
  /\ RetryQuiet

BatchNext ==
  \/ SubmitBatch
  \/ SyncAgain
  \/ \E ok \in BOOLEAN : PostGroup(ok)

\* createOrders on a batch of orders, called a second time with the same
\* batch, against a platform that upserts by order key.
SpecBatch == BatchInit /\ [][BatchNext]_vars

ValidateInit ==
  /\ voOrders \in ValidationLists
  /\ ValidateIdle
  /\ ClientQuiet
  /\ ServerQuiet
  /\ TrackingQuiet
  /\ OrdersQuiet
  /\ BatchQuiet
  /\ RunQuiet
  /\ ListQuiet
  /\ CarrierQuiet
  /\ RetryQuiet

ValidateNext ==
  \/ validateOrders
  \/ ValidateOne

\* validateOrders on a list of orders.
SpecValidate == ValidateInit /\ [][ValidateNext]_vars

RunInit ==
  /\ runPipeline \in {"sync", "tracking"}
  /\ runAccountsFile \in AccountsFiles
  /\ \E call \in RunCalls(runAccountsFile) :
       /\ accountsToProcess = call.accountsToProcess
       /\ progressCallback = call.progressCallback
  /\ initialSyncDate \in BOOLEAN
  /\ files \in {{}, {CursorFile(n) : n \in AccountNames}}
  /\ RunIdle
  /\ ClientQuiet
  /\ ServerQuiet
  /\ TrackingQuiet
  /\ OrdersQuiet
  /\ BatchQuiet
  /\ ValidateQuiet
  /\ ListQuiet
  /\ CarrierQuiet
  /\ RetryQuiet

RunNext ==
  \/ \E ok \in BOOLEAN : RunStart(ok)
  \/ \E met \in SyncMet : RunSyncAccount(met)
  \/ \E met \in TrackingMet : RunTrackingAccount(met)
  \/ RunFinish

SpecRun == RunInit /\ [][RunNext]_vars

ListInit ==
  /\ shipmentPages \in {WithShipmentIds(list) :
                          list \in SeqsUpTo(PageShapes, MaxListPages)}
  /\ pages \in 0..(MaxListPages + 1)
  /\ ListIdle
  /\ ClientQuiet
  /\ ServerQuiet
  /\ TrackingQuiet
  /\ OrdersQuiet
  /\ BatchQuiet
  /\ ValidateQuiet
  /\ RunQuiet
  /\ CarrierQuiet
  /\ RetryQuiet

ListNext ==
  \/ ListShipments
  \/ \E ok \in BOOLEAN : GetShipmentsPage(ok)

\* One call of getShippedOrdersWithTracking against a platform that answers
\* or fails every request; the call goes on as long as it can.
SpecList == ListInit /\ [][ListNext]_vars /\ WF_vars(ListNext)

CarrierInit ==
  /\ carrierCode \in CarrierCodes
  /\ courier = NoCourier
  /\ ClientQuiet
  /\ ServerQuiet
  /\ TrackingQuiet
  /\ OrdersQuiet
  /\ BatchQuiet
  /\ ValidateQuiet
  /\ RunQuiet
  /\ ListQuiet
  /\ RetryQuiet

CarrierNext == MapCarrier

\* The carrier mapping applied to one carrier code.
SpecCarrier == CarrierInit /\ [][CarrierNext]_vars


(***************************************************************************)
(* Properties of the server.                                               *)
(***************************************************************************)
\* C1: single flight.  Over every interleaving of start requests from the
\* endpoints and the cron jobs with the steps of the runs, at most one run is
\* active at any instant, and a start request that arrives while a run is
\* active starts nothing: it is answered with the conflict result (or, when
\* its body names no account, with 400), and the set of active runs is left as
\* it was, with nothing queued or merged into it.
C1_SingleFlight ==
  /\ [](Len(runs) <= 1)
  /\ [](syncStatus.isRunning <=> runs # <<>>)
  /\ [][ (lastReq' # "none" /\ runs # <<>>)
         => /\ lastReq' \in {"conflict", "bad request"}
            /\ runs' = runs ]_vars

\* Witness of C1: a request was rejected with the conflict result while a run
\* accepted earlier is still active.
C1_Witness ==
  /\ Len(runs) = 1
  /\ runs[1].pc = "pipeline"
  /\ lastReq = "conflict"

\* C2: a start request rejected while a run is in progress leaves the status
\* object as it was: running flag, run type, start time, progress counters,
\* account list and log buffer.
C2_RejectKeepsState ==
  [][ (syncStatus.isRunning /\ lastReq' = "conflict")
      => /\ syncStatus'.isRunning = syncStatus.isRunning
         /\ syncStatus'.type = syncStatus.type
         /\ syncStatus'.startTime = syncStatus.startTime
         /\ syncStatus'.progress = syncStatus.progress
         /\ syncStatus'.currentAccountProgress = syncStatus.currentAccountProgress
         /\ syncStatus'.accounts = syncStatus.accounts
         /\ syncStatus'.logs = syncStatus.logs
         /\ runs' = runs ]_vars

\* Witness of C2: a request was rejected while the run in progress had
\* already reported progress, at a later time than the run's start.
C2_Witness ==
  /\ syncStatus.isRunning
  /\ lastReq = "conflict"
  /\ syncStatus.progress.processed > 0
  /\ syncStatus.accounts # <<>>
  /\ Len(syncStatus.logs) >= 2
  /\ now > syncStatus.startTime

(***************************************************************************)
(* Properties of the tracking update.                                      *)
(***************************************************************************)
PushedShipments == {pushes[k].shipmentId : k \in DOMAIN pushes}

ShipmentIdsOf(list) == {list[k].shipmentId : k \in DOMAIN list}

\* C3: a run that begins with processed shipment ids on file (left by an
\* interrupted run) pushes none of those shipments, and by the end of its
\* loop it has pushed exactly the fetched shipments that were not on file.
C3_ResumeSkipsProcessed ==
  /\ \A k \in DOMAIN pushes : pushes[k].shipmentId \notin resumeSet
  /\ utPc \in {"saveLastSyncTime", "resetTrackingState"}
       => PushedShipments = ShipmentIdsOf(orders) \ resumeSet

\* A run resumed after a crash found shipment 1 on file and has pushed the
\* other two shipments of the batch, and only them.
C3_Witness ==
  /\ resumed
  /\ utPc = "resetTrackingState"
  /\ resumeSet = {1}
  /\ ShipmentIdsOf(orders) = {1, 2, 3}
  /\ PushedShipments = {2, 3}

\* C6: a run started right after a run that completed without errors, with
\* no shipment created in between, pushes nothing, returns zero counters and
\* still ends with a 'complete' event.
C6_QuietRerunPushesNothing ==
  (quietStart /\ utPc = "done" /\ paResult.errors = <<>>)
    => /\ pushes = <<>>
       /\ paResult.processed = 0
       /\ paResult.updated = 0
       /\ paResult.alreadyTracked \in {0, Absent}
       /\ withCallback => lastEvent.phase = "complete"

\* C7: a step changes the watermark or removes an id from the processed
\* set on file only from the two writes after the loop, when every shipment
\* of the filtered batch has been pushed; in particular a crash or the
\* catch block changes neither.
C7_WatermarkAfterWholeBatch ==
  [][(\/ syncTimeFile' # syncTimeFile
      \/ ~(Range(trackingStateFile.processedShipmentIds)
             \subseteq Range(trackingStateFile'.processedShipmentIds)))
       => /\ utPc \in {"saveLastSyncTime", "resetTrackingState"}
          /\ filteredOrders # <<>>
          /\ ShipmentIdsOf(filteredOrders) \subseteq PushedShipments]_vars

\* A run over a batch of several shipments has ended: the watermark is the
\* time taken after the loop and the processed set on file is empty.
C7_Witness ==
  /\ utPc = "done"
  /\ sinceRun = "complete"
  /\ Len(filteredOrders) >= 2
  /\ syncTimeFile = currentTime
  /\ trackingStateFile = StateRecord(NoShipment, <<>>, currentTime)

(***************************************************************************)
(* Properties of the order sync.                                           *)
(***************************************************************************)
\* C4: once a run has completed, every valid order that was returned in a
\* page whose cursor was persisted has been submitted for creation.
C4_AtLeastOnce ==
  (soPc = "done" /\ soOutcome = "complete")
    => \A order \in returnedPersisted : IsValid(order) => order \in submitted

\* C5: the cursor on file never moves back, a run pages forward from the
\* cursor that was on file when it began, and it returns no order at or
\* before that cursor.
C5_CursorMonotone ==
  /\ [][cursorFile' >= cursorFile]_vars
  /\ [](soPc \in {"query", "saveCursor"} => afterCursor >= startCursor)
  /\ [](\A k \in DOMAIN goOrders : goOrders[k] > startCursor)

\* A run begun after a crash, with the cursor of the first page on file,
\* has fetched the rest of the feed and moved the cursor to its end.
C5_Witness ==
  /\ soFaults > 0
  /\ startCursor = MaxPage
  /\ goOrders # <<>>
  /\ soPc = "validate"
  /\ cursorFile = feedLen
  /\ cursorFile > startCursor

(***************************************************************************)
(* Properties of the fulfillment client.                                   *)
(***************************************************************************)
Is429(answer) == answer.status = 429

CredentialError == "Invalid ShipStation API credentials"

\* C8: rate-limit retry.  Against an API that answers 429 with retry-after 2
\* twice and then succeeds, createOrders of one group waits exactly twice
\* (2 seconds each), re-issues the request, and reports the group exactly once
\* in successful and not in failed.
C8_RateLimitRetry ==
  ( /\ Len(api.script) = 3
    /\ api.script[1] = [status |-> 429, retryAfter |-> 2]
    /\ api.script[2] = [status |-> 429, retryAfter |-> 2]
    /\ api.script[3].status = 200
    /\ groupedCount = 1
    /\ ccPc = "done" )
  => /\ waits = <<2, 2>>
     /\ Len(successful) = 1
     /\ successful[1].group = 1
     /\ failed = <<>>

\* C9: bounded retry.  Against an API that answers every request with 429,
\* the executeRequest call of a group ends in a failure after the maximum
\* attempt count (the first attempt plus maxRetries retries), and the failure
\* is recorded once, for that call only.
C9_BoundedRetry ==
  ( /\ \A k \in DOMAIN api.script : Is429(api.script[k])
    /\ Is429(api.rest)
    /\ groupedCount = 1
    /\ ccPc = "done" )
  => /\ successful = <<>>
     /\ Len(failed) = 1
     /\ failed[1].attempts = maxRetries + 1
     /\ Len(waits) = maxRetries

\* C10: an HTTP 401 answer is never retried.  The step of executeRequest that
\* receives a 401 ends the call at once: nothing is slept, the group is
\* recorded as failed with the credential error, and createOrders moves on.
C10_Never401Retry ==
  [][ ( /\ ccPc = "request"
        /\ apiPos' = apiPos + 1
        /\ ApiAnswer(apiPos + 1).status = 401 )
      => /\ waits' = waits
         /\ Len(failed') = Len(failed) + 1
         /\ failed'[Len(failed')].group = gi
         /\ failed'[Len(failed')].error = CredentialError
         /\ successful' = successful
         /\ (gi' = gi + 1 \/ ccPc' = "done") ]_vars

\* Witness of C10: a group failed on a 401 answer with the credential error.
C10_Witness ==
  /\ apiPos >= 1
  /\ ApiAnswer(apiPos).status = 401
  /\ Len(failed) >= 1
  /\ failed[Len(failed)].error = CredentialError
  /\ failed[Len(failed)].attempts = 1

(***************************************************************************)
(* Properties of order consolidation.                                      *)
(***************************************************************************)
\* C11: grouping partition.  Once createOrders has grouped its batch, the
\* orders contained in the groups are exactly the non-cancelled orders of the
\* batch: no order appears in two groups or twice in one, and no
\* non-cancelled order is missing from the groups.
C11_GroupsPartitionBatch ==
  batchPc \in {"post", "done"} =>
    LET members(g) == {groupedOrders[g].orders[k].id :
                         k \in DOMAIN groupedOrders[g].orders}
        kept == {whatnotOrders[k].id :
                   k \in {j \in DOMAIN whatnotOrders :
                            ~whatnotOrders[j].cancelledAt}}
    IN /\ UNION {members(g) : g \in DOMAIN groupedOrders} = kept
       /\ \A g \in DOMAIN groupedOrders :
            Cardinality(members(g)) = Len(groupedOrders[g].orders)
       /\ \A g, h \in DOMAIN groupedOrders :
            g # h => members(g) \cap members(h) = {}

C14_ValidatorTotal ==
  voPc = "done" =>
    LET okList  == validationResults.valid
        badList == validationResults.invalid
        validIds   == {okList[k].id : k \in DOMAIN okList}
        invalidIds == {badList[k].order.id : k \in DOMAIN badList}
    IN /\ Len(okList) + Len(badList) = Len(voOrders)
       /\ validIds \cup invalidIds = DOMAIN voOrders
       /\ validIds \cap invalidIds = {}
       /\ Cardinality(validIds) = Len(okList)
       /\ Cardinality(invalidIds) = Len(badList)

\* A list with a cancelled order and a valid one, validated.
C14_Witness ==
  /\ voPc = "done"
  /\ Len(voOrders) = MaxBatch
  /\ \E k \in DOMAIN voOrders : voOrders[k].cancelledAt
  /\ validationResults.valid # <<>>
  /\ validationResults.invalid # <<>>

\* C15: validator correctness.  When validateOrders has returned, an input
\* order is in valid exactly if it is not cancelled, carries no tracking
\* code, has status PROCESSING, has at least one item, has no pickup item and
\* has a SKU on every non-pickup item; and the reasons reported for an
\* invalid order are exactly the applicable ones: cancelled, tracking code,
\* status, no items, pickup items, and a missing SKU for each non-pickup item
\* without one.
C15_ValidatorCorrect ==
  voPc = "done" =>
    LET okList  == validationResults.valid
        badList == validationResults.invalid
        eligible(order) ==
          /\ ~order.cancelledAt
          /\ ~order.trackingCode
          /\ order.status = "PROCESSING"
          /\ order.items # <<>>
          /\ \A k \in DOMAIN order.items :
               ~order.items[k].isPickup /\ order.items[k].sku
        applicable(order) ==
          {<<"Order is cancelled", Null>> : x \in {order.cancelledAt} \ {FALSE}}
          \cup {<<"Order already has tracking code", Null>> :
                  x \in {order.trackingCode} \ {FALSE}}
          \cup {<<"Invalid order status", order.status>> :
                  x \in {order.status} \ {"PROCESSING"}}
          \cup {<<"Order has no items", Null>> : x \in {order.items} \cap {<<>>}}
          \cup {<<"Order contains pickup items", Null>> :
                  k \in {j \in DOMAIN order.items : order.items[j].isPickup}}
          \cup {<<"Missing SKU for item", order.items[k].id>> :
                  k \in {j \in DOMAIN order.items :
                           ~order.items[j].isPickup /\ ~order.items[j].sku}}
    IN /\ \A k \in DOMAIN voOrders :
            eligible(voOrders[k]) <=> \E v \in DOMAIN okList : okList[v] = voOrders[k]
       /\ \A k \in DOMAIN badList :
            {badList[k].errors[e] : e \in DOMAIN badList[k].errors}
              = applicable(badList[k].order)

\* An order with one item missing a SKU and one pickup item, reported with
\* these two reasons.
C15_Witness ==
  /\ voPc = "done"
  /\ \E k \in DOMAIN validationResults.invalid :
       LET reported == validationResults.invalid[k]
       IN /\ Len(reported.order.items) > 1
          /\ reported.errors = <<<<"Missing SKU for item", "i1">>,
                                 <<"Order contains pickup items", Null>>>>

(***************************************************************************)
(* Properties of the classification of failed tracking pushes.             *)
(***************************************************************************)
\* C16: already-tracked classification.  When processAccount has the result
\* of the pushes of a shipment, alreadyTracked grows by the number of order
\* ids whose push failed with 'cannot override tracking code' or 'already
\* has tracking' and errors grows by one entry for every push that failed
\* otherwise, and by nothing else; a push that succeeded adds to neither.
C16_AlreadyTrackedNotAnError ==
  [][(utPc = "push" /\ utPc' = "saveTrackingState") =>
       LET failedTexts == updateResult'.failed
           already == {k \in DOMAIN failedTexts :
                         failedTexts[k] \in {"cannot override tracking code",
                                             "already has tracking"}}
           others  == DOMAIN failedTexts \ already
       IN /\ results'.alreadyTracked
               = results.alreadyTracked + Cardinality(already)
          /\ Len(results'.errors) = Len(results.errors) + Cardinality(others)
          /\ updateResult'.successful + Len(failedTexts)
               = Len(filteredOrders[ti].whatnotOrderIds)
          /\ results'.updated = results.updated + updateResult'.successful]_vars

\* A shipment with two line items, one push refused as already tracked and
\* one failed otherwise: one already tracked, one error.
C16_Witness ==
  /\ utPc = "saveTrackingState"
  /\ Len(updateResult.failed) > 1
  /\ updateResult.failed[1] = "already has tracking"
  /\ updateResult.failed[Len(updateResult.failed)] = "request failed"
  /\ results.alreadyTracked = 1
  /\ Len(results.errors) = 1


(***************************************************************************)
(* C18.  In a multi-account run (runAllSyncOrders, runAllTrackingUpdates), *)
(* once an account of the run has failed at account level, that is, the    *)
(* pipeline's result for it carries an account error, the overall success  *)
(* flag of the run's result is false.                                      *)
(***************************************************************************)
C18_AccountFailureClearsSuccess ==
  \A k \in DOMAIN runs :
    (IsMulti(runs[k].fn) /\ runs[k].overall.nErrors > 0)
      => ~runs[k].overall.success


(***************************************************************************)
(* C17.  Account failure isolation: in a run of either pipeline over its   *)
(* accounts, the accounts are processed one after another in list order;   *)
(* a failure thrown by a step of one account is recorded against that     *)
(* account, in its entry of the run result and in the run's errors; the    *)
(* loop goes on, so a finished run has processed every account; and the    *)
(* entries of the accounts processed before stay in the run result (a run  *)
(* without a callback keeps the counts of processAccount in them).  A run  *)
(* is aborted by the loading of the accounts only.                         *)
(***************************************************************************)
C17_AccountFailureIsolated ==
  /\ Len(handled) = runIdx
  /\ Len(runResults.accounts) = runIdx
  /\ runPc = "done" => runIdx = Len(runAccounts)
  /\ runPc = "threw" => runIdx = 0
  /\ \A k \in DOMAIN handled :
       LET entry == runResults.accounts[k]
           name  == runAccounts[k].name
       IN /\ handled[k].name = name
          /\ entry.name = name
          /\ handled[k].threw # "none" =>
               /\ Range(entry.errors)
                    \cap {ErrorOf("accountId", name, 0), ErrorOf("error", Null, 0)} # {}
               /\ ErrorOf("accountId", name, 0) \in Range(runResults.total.errors)
          /\ (handled[k].threw = "none" /\ ~progressCallback) =>
               entry.processed = handled[k].processed

\* A finished run of two accounts whose first account failed and whose
\* second one was processed with orders or shipments.
C17_Witness ==
  /\ runPc = "done"
  /\ Len(runAccounts) = 2
  /\ handled[1].threw # "none"
  /\ handled[2].threw = "none"
  /\ handled[2].processed > 0
  /\ runResults.accounts[2].processed > 0


(***************************************************************************)
(* C19.  Order-sync terminal denominator: when an order-sync run with a    *)
(* progress callback has finished, the last event it emitted has phase     *)
(* 'complete', its total.total (read as the handlers read it, a missing    *)
(* value being 0) is the number of marketplace orders fetched, and its     *)
(* total.processed is that same number.                                    *)
(***************************************************************************)
C19_TerminalDenominator ==
  (runPipeline = "sync" /\ runPc = "done" /\ progressCallback /\ emitted > 0) =>
    /\ lastEmitted.phase = "complete"
    /\ (IF lastEmitted.total.total = Absent THEN 0 ELSE lastEmitted.total.total)
         = fetchedByRun
    /\ lastEmitted.total.processed = fetchedByRun


(***************************************************************************)
(* C20.  A run of syncOrders or updateTracking that got past the loading   *)
(* of its accounts and has finished, whatever its accounts met, has        *)
(* emitted a terminal progress event (phase 'complete' or 'error') as its  *)
(* last event when a progress callback was handed over, and returns a      *)
(* result with one entry per account, in list order, and with totals; the  *)
(* processed total is the sum over the entries where the totals are added  *)
(* from the account results (order sync, and tracking without a callback). *)
(***************************************************************************)
C20_RunEndsWithTerminalEvent ==
  runPc = "done" =>
    /\ progressCallback =>
         /\ emitted > 0
         /\ lastEmitted.phase \in {"complete", "error"}
         /\ lastEmitted.hasTotal
    /\ Len(runResults.accounts) = Len(runAccounts)
    /\ \A k \in DOMAIN runAccounts :
         runResults.accounts[k].name = runAccounts[k].name
    /\ (runPipeline = "sync" \/ ~progressCallback) =>
         runResults.total.processed = SumProcessed(runResults.accounts)

\* A finished tracking run with a callback whose account failed after its
\* shipments were handled.
C20_Witness ==
  /\ runPc = "done"
  /\ runPipeline = "tracking"
  /\ progressCallback
  /\ handled[1].threw = "saveLastSyncTime"
  /\ lastEmitted.phase = "complete"
  /\ emitted > 3


(***************************************************************************)
(* C21.  createOrders calls its progress callback once before the loop and *)
(* once after every consolidated group, created or failed: the call after  *)
(* the k-th group reports created + failed = k, every call reports total   *)
(* (and groupedCount) equal to the number of consolidated groups, and      *)
(* created and failed never decrease from one call to the next.            *)
(***************************************************************************)
C21_CallbackAfterEveryGroup ==
  batchPc \in {"post", "done"} =>
    /\ Len(callbacks) = 1 + (IF batchPc = "done" THEN Len(groupedOrders)
                                                 ELSE batchIdx - 1)
    /\ \A k \in DOMAIN callbacks :
         /\ callbacks[k].created + callbacks[k].failed = k - 1
         /\ callbacks[k].total = Len(groupedOrders)
         /\ callbacks[k].groupedCount = Len(groupedOrders)
         /\ k > 1 => /\ callbacks[k - 1].created <= callbacks[k].created
                     /\ callbacks[k - 1].failed <= callbacks[k].failed

\* A call that has ended with two orders consolidated into one group, whose
\* request failed: the denominator is 1, not 2.
C21_Witness ==
  /\ batchPc = "done"
  /\ Len(whatnotOrders) = 2
  /\ Len(groupedOrders) = 1
  /\ Len(callbacks) = 2
  /\ callbacks[2].total = 1
  /\ callbacks[2].failed = 1

(***************************************************************************)
(* C22.  Per-shipment checkpoint: whenever the tracking update goes on     *)
(* from one shipment of the filtered batch to the push for the next one,   *)
(* the id of the shipment just handled is in the processed set on file,    *)
(* whatever the outcome of its pushes was.                                 *)
(***************************************************************************)
C22_CheckpointBeforeNextPush ==
  [][(utPc = "saveTrackingState" /\ utPc' = "push")
       => filteredOrders[ti].shipmentId
            \in Range(trackingStateFile'.processedShipmentIds)]_vars

FileIds(file) == Range(file.processedShipmentIds)

PushedOrders(id) == {pushes[k].orderId : k \in {j \in DOMAIN pushes :
                                                  pushes[j].shipmentId = id}}

C24_ProcessedSetInvariant ==
  [][/\ \A id \in FileIds(trackingStateFile') \ FileIds(trackingStateFile) :
          /\ id \in ShipmentIdsOf(filteredOrders)
          /\ PushedOrders(id) = Range(ShipmentResult(id).whatnotOrderIds)
     /\ (FileIds(trackingStateFile) # {} /\ FileIds(trackingStateFile') = {})
          => /\ utPc = "resetTrackingState"
             /\ ti = Len(filteredOrders)
             /\ filteredOrders # <<>>
             /\ ShipmentIdsOf(filteredOrders) \subseteq PushedShipments]_vars

\* A run resumed after a crash: shipment 1 is on file from the interrupted
\* run and is not pushed again, shipments 2 and 3 have been pushed and
\* added to the file by this run.
C24_Witness ==
  /\ resumed
  /\ FileIds(trackingStateFile) = {1, 2, 3}
  /\ 1 \notin PushedShipments
  /\ PushedOrders(3) = {31}

(***************************************************************************)
(* C25.  Orders with zero line items.                                      *)
(***************************************************************************)
\* The entries of validationResults.invalid for orders without items.
NoItemsReports ==
  {k \in DOMAIN validationResults.invalid :
     validationResults.invalid[k].order.items = <<>>}

\* C25 as stated: an order with zero line items is rejected with exactly one
\* reason, 'Order has no items', whatever its cancellation, tracking and
\* status fields are.
C25_NoItemsSingleReason ==
  /\ \A k \in DOMAIN validationResults.valid :
       validationResults.valid[k].items # <<>>
  /\ \A k \in NoItemsReports :
       validationResults.invalid[k].errors = <<<<"Order has no items", Null>>>>

\* C25 amended: an order with zero line items is rejected; 'Order has no
\* items' is its last reason and no per-item reason is reported, but the
\* reasons for its cancellation, tracking and status fields come before it
\* where they apply, so it is the only reason exactly when the order is not
\* cancelled, has no tracking code and has status PROCESSING.
C25_NoItemsLastReason ==
  /\ \A k \in DOMAIN validationResults.valid :
       validationResults.valid[k].items # <<>>
  /\ \A k \in NoItemsReports :
       LET order  == validationResults.invalid[k].order
           errors == validationResults.invalid[k].errors
           before == SubSeq(errors, 1, Len(errors) - 1)
       IN /\ errors # <<>>
          /\ errors[Len(errors)] = <<"Order has no items", Null>>
          /\ before =
               (IF order.cancelledAt
                  THEN <<<<"Order is cancelled", Null>>>> ELSE <<>>)
               \o (IF order.trackingCode
                     THEN <<<<"Order already has tracking code", Null>>>>
                     ELSE <<>>)
               \o (IF order.status # "PROCESSING"
                     THEN <<<<"Invalid order status", order.status>>>>
                     ELSE <<>>)
          /\ Len(errors) = 1 <=> /\ ~order.cancelledAt
                                 /\ ~order.trackingCode
                                 /\ order.status = "PROCESSING"

\* A cancelled order without items has been reported with two reasons, and
\* an order without items and nothing else wrong with one.
C25_Witness ==
  /\ voPc = "done"
  /\ \E k \in NoItemsReports :
       validationResults.invalid[k].errors
         = <<<<"Order is cancelled", Null>>, <<"Order has no items", Null>>>>
  /\ \E k \in NoItemsReports :
       validationResults.invalid[k].errors = <<<<"Order has no items", Null>>>>

(***************************************************************************)
(* C26.  Group homogeneity.  The session id derived for an order is the    *)
(* stream id of the hour in which the earliest non-cancelled order of the  *)
(* batch with the same stream reference was created.  In every group of    *)
(* groupOrders all orders have the customer of the first one and the       *)
(* derived session id stored on the group; no two groups of a call have    *)
(* the same (session id, customer) pair; and no two shipping orders posted *)
(* by one call of createOrders have the same order key.                    *)
(***************************************************************************)
DerivedSessionId(order) ==
  LET sameStream == {k \in DOMAIN whatnotOrders :
                       /\ ~whatnotOrders[k].cancelledAt
                       /\ whatnotOrders[k].reference = order.reference}
      earliest == CHOOSE k \in sameStream :
                    \A j \in sameStream :
                      whatnotOrders[k].createdAt <= whatnotOrders[j].createdAt
  IN formatStreamId(whatnotOrders[earliest].createdAt)

C26_GroupHomogeneity ==
  batchPc \in {"post", "done"} =>
    /\ \A g \in DOMAIN groupedOrders :
         \A k \in DOMAIN groupedOrders[g].orders :
           /\ groupedOrders[g].orders[k].username
                = groupedOrders[g].orders[1].username
           /\ DerivedSessionId(groupedOrders[g].orders[k])
                = groupedOrders[g].streamId
    /\ \A g, h \in DOMAIN groupedOrders :
         g # h => <<groupedOrders[g].streamId,
                    groupedOrders[g].orders[1].username>>
                  # <<groupedOrders[h].streamId,
                      groupedOrders[h].orders[1].username>>
    /\ \A p, q \in DOMAIN posted :
         p # q => posted[p].orderKey # posted[q].orderKey

\* Two orders of one customer from one stream, created in different hours,
\* are in one group under the session id of the earlier one, and its
\* shipping order has been posted.
C26_Witness ==
  /\ batchPc = "done"
  /\ Len(groupedOrders) = 1
  /\ Len(groupedOrders[1].orders) = 2
  /\ groupedOrders[1].orders[1].reference = groupedOrders[1].orders[2].reference
  /\ formatStreamId(groupedOrders[1].orders[1].createdAt)
       # formatStreamId(groupedOrders[1].orders[2].createdAt)
  /\ Len(posted) = 1

(***************************************************************************)
(* C27.  createOrders posts one shipping order per consolidated group, in  *)
(* the order of the groups and each only after the group before it has     *)
(* been recorded; a failed group does not stop the loop; and on return     *)
(* every group is recorded exactly once, in successful or in failed, so    *)
(* the two lists together are as long as the list of groups.               *)
(***************************************************************************)
RecordedIn(list, orderGroup) ==
  Cardinality({k \in DOMAIN list : list[k] = GroupEntry(orderGroup)})

NothingNewToPush ==
  \A id \in DOMAIN shipments :
    (/\ DateOf(shipments[id]) >= DateOf(lastSyncTime)
     /\ DateOf(shipments[id]) <= DateOf(clock))
      => id \in Range(processedShipmentIds)

C28_EmptyBatchSynthetic ==
  [][(utPc = "fetch" /\ utPc' # "fetch" /\ faults' = faults /\ NothingNewToPush)
       => /\ utPc' = "done"
          /\ pushes' = <<>>
          /\ syncTimeFile' = syncTimeFile
          /\ trackingStateFile' = trackingStateFile
          /\ paResult'.processed = 0 /\ paResult'.updated = 0
          /\ paResult'.errors = <<>>
          /\ withCallback =>
               /\ lastEvent'.phase = "complete"
               /\ Len(lastEvent'.accounts) = 1
               /\ lastEvent'.accounts[1].processed = lastEvent'.accounts[1].total
               /\ lastEvent'.accounts[1].total > 0]_vars

\* A run with a callback, started after a crash that came between the
\* checkpoint of the only shipment and the watermark: the shipment fetched
\* again is on file, the batch is empty and the run has ended.
C28_Witness ==
  /\ utPc = "done"
  /\ sinceRun = "complete"
  /\ withCallback
  /\ resumed
  /\ orders # <<>>
  /\ filteredOrders = <<>>
  /\ pushes = <<>>
  /\ lastEvent.phase = "complete"
  /\ lastEvent.accounts[1].total = 1
  /\ trackingStateFile.processedShipmentIds # <<>>

(***************************************************************************)
(* C30.  For every shipment of the filtered batch that the tracking update *)
(* has handled, the tracking code has been pushed exactly once for each    *)
(* distinct marketplace order id among the SKUs of its line items, also    *)
(* when an order has several line items in the shipment.                   *)
(***************************************************************************)
PushCount(shipmentId, orderId) ==
  Cardinality({k \in DOMAIN pushes :
                 pushes[k] = [shipmentId |-> shipmentId, orderId |-> orderId]})

C30_OnePushPerOrder ==
  utPc \in {"push", "saveTrackingState", "saveLastSyncTime",
            "resetTrackingState"} =>
    \A k \in DOMAIN filteredOrders :
      (k < ti \/ (k = ti /\ utPc # "push")) =>
        \A orderId \in Range(filteredOrders[k].whatnotOrderIds) :
          PushCount(filteredOrders[k].shipmentId, orderId) = 1

(***************************************************************************)
(* C29.  The shipment listing requests the pages 1, 2, ... in order and    *)
(* comes to an end.  When it returns, the last page requested is the first *)
(* one that came back without shipments or the first one whose number      *)
(* reached the page count the platform declares; and the list returned     *)
(* holds, in the order fetched, exactly the shipments of the pages         *)
(* received that are not voided, have a tracking number and have at least  *)
(* one line item with a sku, each with the skus of its line items.         *)
(***************************************************************************)
RECURSIVE FetchedShipments(_)
FetchedShipments(n) ==
  IF n = 0 THEN <<>>
  ELSE FetchedShipments(n - 1)
         \o (IF n \in DOMAIN shipmentPages THEN shipmentPages[n] ELSE <<>>)

Listable(shipment) ==
  /\ ~shipment.voided
  /\ shipment.trackingNumber
  /\ \E k \in DOMAIN shipment.skus : shipment.skus[k] # NoSku

C29_ListingPagesAndFilters ==
  /\ [](\A k \in DOMAIN requestedPages : requestedPages[k] = k)
  /\ [](listPc = "done" =>
          LET n == Len(requestedPages)
              received(p) == IF p \in DOMAIN shipmentPages
                               THEN shipmentPages[p] ELSE <<>>
              kept == SelectSeq(FetchedShipments(n), Listable)
          IN /\ n >= 1
             /\ received(n) = <<>> \/ n >= pages
             /\ \A p \in 1..(n - 1) : received(p) # <<>> /\ p < pages
             /\ Len(listResults) = Len(kept)
             /\ \A k \in DOMAIN kept :
                  /\ listResults[k].shipmentId = kept[k].shipmentId
                  /\ listResults[k].whatnotOrderIds
                       = SelectSeq(kept[k].skus, LAMBDA sku : sku # NoSku))
  /\ <>(listPc \in {"done", "threw"})

\* A listing over two pages has returned: of the four shipments received it
\* dropped the one without tracking number and the one without a sku.
C29_Witness ==
  /\ listPc = "done"
  /\ requestedPages = <<1, 2>>
  /\ pages = 2
  /\ Len(FetchedShipments(2)) = 4
  /\ Len(listResults) = 2
  /\ listResults[1].shipmentId = 12
  /\ listResults[2].shipmentId = 22

(***************************************************************************)
(* C39.  Tracking accounting: when processAccount has returned normally    *)
(* for a non-empty filtered batch, processed is the number of shipments of *)
(* the batch, and every push issued is counted once, in updated, in        *)
(* alreadyTracked or in errors.                                            *)
(***************************************************************************)
C39_TrackingAccounting ==
  (utPc = "done" /\ sinceRun = "complete" /\ filteredOrders # <<>>)
    => /\ paResult.processed = Len(filteredOrders)
       /\ paResult.updated + paResult.alreadyTracked + Len(paResult.errors)
            = Len(pushes)

(***************************************************************************)
(* C34.  Carrier mapping: the courier is 'usps' for an absent code, for a  *)
(* code containing 'usps' or 'stamps' and for a code naming none of the    *)
(* three carriers; it is 'ups' only for a code that contains 'ups' outside *)
(* of 'usps', and 'fedex' only for a code containing 'fedex'.              *)
(***************************************************************************)
C34_CarrierMapping ==
  courier # NoCourier =>
    LET code    == toLowerCase(carrierCode)
        isUsps  == \/ includes(code, <<"u", "s", "p", "s">>)
                   \/ includes(code, <<"s", "t", "a", "m", "p", "s">>)
        isUps   == \E k \in 0..(Len(code) - 3) :
                     /\ SubSeq(code, k + 1, k + 3) = <<"u", "p", "s">>
                     /\ ~(k >= 1 /\ code[k] = "s")
        isFedex == includes(code, <<"f", "e", "d", "e", "x">>)
    IN /\ (carrierCode = NoCarrier \/ isUsps) => courier = "usps"
       /\ ~(isUsps \/ isUps \/ isFedex) => courier = "usps"
       /\ courier = "ups" => isUps
       /\ courier = "fedex" => isFedex

(***************************************************************************)
(* C38.  The result of updateTracking does not depend on the progress      *)
(* callback: when the run has ended, total.processed, total.updated and    *)
(* the number of total.errors are those of the result that processAccount  *)
(* returned, which is what a run without callback adds up, and             *)
(* total.processed is the number of shipments iterated.                    *)
(***************************************************************************)
C38_ResultIndependentOfCallback ==
  (utPc = "done" /\ sinceRun = "complete") =>
    /\ utResults.total.processed = paResult.processed
    /\ utResults.total.updated = paResult.updated
    /\ utResults.total.errors = Len(paResult.errors)
    /\ utResults.total.processed = Len(filteredOrders)


(***************************************************************************)
(* C32: when the account has no persisted cursor and no minimum start date *)
(* is configured, the order sync of that account fails before any request  *)
(* is sent: no call and no file access is made, no cursor file appears,    *)
(* the account's entry of the results carries the error under the          *)
(* account's name, and the loop goes on, so that a finished run has        *)
(* handled every account of its list.                                      *)
(***************************************************************************)
C32_MissingStartDateFailsAccount ==
  /\ [][(/\ runPipeline = "sync"
         /\ runPc = "loop"
         /\ runIdx' = runIdx + 1
         /\ runAccounts[runIdx + 1].enabled
         /\ CursorFile(runAccounts[runIdx + 1].name) \notin files
         /\ ~initialSyncDate)
          => /\ steps' = steps
             /\ files' = files
             /\ fetchedByRun' = fetchedByRun
             /\ runResults'.accounts[runIdx + 1].name = runAccounts[runIdx + 1].name
             /\ runResults'.accounts[runIdx + 1].errors
                  = <<ErrorOf("accountId", runAccounts[runIdx + 1].name, 0)>>
             /\ runResults'.accounts[runIdx + 1].processed = 0
             /\ runResults'.total.errors
                  = runResults.total.errors
                      \o <<ErrorOf("accountId", runAccounts[runIdx + 1].name, 0)>>
             /\ runPc' = "loop"]_vars
  /\ [](runPc = "done" => Len(handled) = Len(runAccounts))

\* Both accounts of a run without start date and without cursors have
\* failed in the constructor, the second after the first, and nothing was
\* requested or written.
C32_Witness ==
  /\ runPipeline = "sync"
  /\ runPc = "done"
  /\ ~initialSyncDate
  /\ files = {}
  /\ steps = <<>>
  /\ Len(handled) = 2
  /\ handled[1].name = "a1" /\ handled[1].threw = "WhatnotService"
  /\ handled[2].name = "a2" /\ handled[2].threw = "WhatnotService"
  /\ Len(runResults.total.errors) = 2


\* The persisted files of an account: its cursor, its sync time and its
\* tracking state.
FilesOf(account) ==
  {CursorFile(account.name), SyncFile(account.shipstationStoreId),
   StateFile(account.shipstationStoreId)}

AccountNamed(name) == CHOOSE a \in Range(runAccountsFile) : a.name = name

(***************************************************************************)
(* C33: while account A is processed, no file of an account B with another *)
(* name and another store id is written: every writing call of the run was *)
(* made for the account that owns the file, and a pass of the account loop *)
(* adds files of the processed account only; in both pipelines and         *)
(* whatever the pass meets.                                                *)
(***************************************************************************)
C33_PerAccountScoping ==
  /\ [](\A k \in DOMAIN steps : \A b \in Range(runAccountsFile) :
          (/\ steps[k].op \in WriteOps
           /\ AccountNamed(steps[k].account).name # b.name
           /\ AccountNamed(steps[k].account).shipstationStoreId
                # b.shipstationStoreId)
            => steps[k].file \notin FilesOf(b))
  /\ [][\A b \in Range(runAccountsFile) :
          (/\ runIdx' = runIdx + 1
           /\ runAccounts[runIdx + 1].name # b.name
           /\ runAccounts[runIdx + 1].shipstationStoreId # b.shipstationStoreId)
            => files' \cap FilesOf(b) = files \cap FilesOf(b)]_vars

\* A tracking run over two accounts: the first one failed while saving its
\* sync time, after its checkpoints, the second one went through; the files
\* of both stores were written, each by its own account.
C33_Witness ==
  /\ runPipeline = "tracking"
  /\ runPc = "done"
  /\ Len(handled) = 2
  /\ handled[1].name = "a1" /\ handled[1].threw = "saveLastSyncTime"
  /\ handled[2].name = "a2" /\ handled[2].threw = "none"
  /\ {StateFile("s1"), SyncFile("s1"), StateFile("s2"), SyncFile("s2")}
       \subseteq files
  /\ \E k \in DOMAIN steps :
       steps[k].account = "a2" /\ steps[k].op = "saveSyncTime"


\* The place of the account in the list the run goes over.
PlaceOf(name) == CHOOSE i \in DOMAIN runAccounts : runAccounts[i].name = name

OpsOf(name, op) == {k \in DOMAIN steps : steps[k].account = name /\ steps[k].op = op}

C37_ResumedRunClearsProcessedSet ==
  (/\ utPc = "done"
   /\ sinceRun = "complete"
   /\ resumed
   /\ orders # <<>>
   /\ \A k \in DOMAIN orders : orders[k].shipmentId \in resumeSet)
    => /\ trackingStateFile.processedShipmentIds = <<>>
       /\ syncTimeFile # NoFile


(***************************************************************************)
(* C36: a shipment whose push failed in a tracking update that went over   *)
(* its whole batch is pushed again by the next tracking update that runs   *)
(* to its end, on the same day or on a later one (no push has stored its   *)
(* tracking code in between).                                              *)
(***************************************************************************)
C36_FailedPushRetried ==
  (utPc = "done" /\ sinceRun = "complete")
    => \A id \in failedBefore : \E k \in DOMAIN pushes : pushes[k].shipmentId = id


\* The marketplace orders a set of shipping orders represents: the skus of
\* their line items.
Represented(held) == UNION {{o.items[k].sku : k \in DOMAIN o.items} : o \in held}

(***************************************************************************)
(* C35: against a destination that upserts by order key, every marketplace *)
(* order that an earlier run of the order sync created in the destination  *)
(* is still among the line items of the destination after a later run:     *)
(* no group of the later run with the same order key and other orders has  *)
(* replaced the shipping order that held it.                               *)
(***************************************************************************)
C35_NoOverwriteAcrossRuns ==
  (submission = "later" /\ batchPc = "done")
    => Represented(firstDestination) \subseteq Represented(destination)


(***************************************************************************)
(* C40: when the awaited calls of an accepted run return, the running flag *)
(* that the run has set is cleared at last, on the success path and on     *)
(* every failure path; and a start request that is answered while the flag *)
(* is clear is accepted, never refused as a conflict.                      *)
(***************************************************************************)
C40_RunFlagReleased ==
  /\ syncStatus.isRunning ~> ~syncStatus.isRunning
  /\ [][(~syncStatus.isRunning /\ lastReq' \in {"started", "conflict"})
          => lastReq' = "started"]_vars

\* A first run has ended and cleared the flag, and the start request that
\* came next has just been accepted: it is the only run in flight.
C40_Witness ==
  /\ accepted = 2
  /\ lastReq = "started"
  /\ syncStatus.isRunning
  /\ Len(runs) = 1
  /\ runs[1].pc = "getAccounts"

====
